---------------------------- MODULE Spec2Model ----------------------------
(***************************************************************************)
(* A model of the ILORA RETREATS concierge assistant                       *)
(* (src/illora_retreats_deployable).                                       *)
(*                                                                         *)
(* Python strings are modelled as sequences of one-character strings, so   *)
(* that strip(), lower(), "in" and == are computed and not assumed.        *)
(* A sheet row (a dict decoded from JSON) is a function from column names  *)
(* to values; a column the row does not have holds Absent, a JSON null     *)
(* holds NoneVal.                                                          *)
(***************************************************************************)
EXTENDS Integers, Sequences, FiniteSets, TLC

VARIABLES
    chat_history,   \* self.chat_history: history key -> list of turns
    qna_rows,       \* self.qna_rows
    dos_donts,      \* self.dos_donts
    campaigns,      \* self.campaigns
    menu,           \* self.menu, an attribute only _refresh_sheets creates:
                    \* [set |-> whether it exists, rows |-> its value]
    client_rows,    \* self.client_rows
    use_sheet,      \* self.use_sheet
    sheet,          \* the spreadsheet behind the web app: its current edition
    now,            \* int(time.time())
    loaded_by,      \* history variable: the refresh that stored each cache
    refreshes,      \* history variable: number of _refresh_sheets calls so far
    calls,          \* history variable: the ask calls made so far
    retriever,      \* self.retriever: "unset" (no such attribute), "none" or "faiss"
    last,           \* history variable: the last ask call and what it returned
    thr,            \* the threads inside ask (SpecConc)
    appends,        \* history variable: key -> all the turns ever appended under it, in order
    fn              \* the function evaluation of the pure-function specifications

bot_vars == <<chat_history, qna_rows, dos_donts, campaigns, menu, client_rows, use_sheet, retriever>>
env_vars == <<sheet, now>>
log_vars == <<loaded_by, refreshes, calls, last, appends>>
vars == <<chat_history, qna_rows, dos_donts, campaigns, menu, client_rows, use_sheet,
          retriever, sheet, now, loaded_by, refreshes, calls, last, thr, appends, fn>>

\* The bot object, as the methods below receive it.
Self ==
    [chat_history |-> chat_history, qna_rows |-> qna_rows, dos_donts |-> dos_donts,
     campaigns |-> campaigns, menu |-> menu, client_rows |-> client_rows,
     use_sheet |-> use_sheet, retriever |-> retriever]

\* The bot object is self_ (in an initial predicate).
Becomes0(self_) ==
    /\ chat_history = self_.chat_history
    /\ qna_rows = self_.qna_rows
    /\ dos_donts = self_.dos_donts
    /\ campaigns = self_.campaigns
    /\ menu = self_.menu
    /\ client_rows = self_.client_rows
    /\ use_sheet = self_.use_sheet
    /\ retriever = self_.retriever

\* The bot object becomes self_.
Becomes(self_) ==
    /\ chat_history' = self_.chat_history
    /\ qna_rows' = self_.qna_rows
    /\ dos_donts' = self_.dos_donts
    /\ campaigns' = self_.campaigns
    /\ menu' = self_.menu
    /\ client_rows' = self_.client_rows
    /\ use_sheet' = self_.use_sheet
    /\ retriever' = self_.retriever

(***************************************************************************)
(* Strings                                                                 *)
(***************************************************************************)
\* Python's None, and a dict key that is not there.
NoneVal == <<"<None>">>
Absent == <<"<absent>">>

\* str.lower on the ASCII letters.
LowerOf ==
    ("A" :> "a") @@ ("B" :> "b") @@ ("C" :> "c") @@ ("D" :> "d") @@ ("E" :> "e") @@
    ("F" :> "f") @@ ("G" :> "g") @@ ("H" :> "h") @@ ("I" :> "i") @@ ("J" :> "j") @@
    ("K" :> "k") @@ ("L" :> "l") @@ ("M" :> "m") @@ ("N" :> "n") @@ ("O" :> "o") @@
    ("P" :> "p") @@ ("Q" :> "q") @@ ("R" :> "r") @@ ("S" :> "s") @@ ("T" :> "t") @@
    ("U" :> "u") @@ ("V" :> "v") @@ ("W" :> "w") @@ ("X" :> "x") @@ ("Y" :> "y") @@
    ("Z" :> "z")

Whitespace == {" ", "\t", "\n"}

lower(s) ==
    [i \in 1..Len(s) |-> IF s[i] \in DOMAIN LowerOf THEN LowerOf[s[i]] ELSE s[i]]

RECURSIVE lstrip(_)
lstrip(s) ==
    IF s # <<>> /\ Head(s) \in Whitespace THEN lstrip(Tail(s)) ELSE s

RECURSIVE rstrip(_)
rstrip(s) ==
    IF s # <<>> /\ s[Len(s)] \in Whitespace THEN rstrip(SubSeq(s, 1, Len(s) - 1)) ELSE s

strip(s) == rstrip(lstrip(s))

\* sub in s
contains(s, sub) ==
    \E i \in 1..(Len(s) - Len(sub) + 1) : SubSeq(s, i, i + Len(sub) - 1) = sub

\* bool(v) of a str or None
Truthy(v) == v # NoneVal /\ v # Absent /\ v # <<>>

\* a or b
Or(a, b) == IF Truthy(a) THEN a ELSE b

\* str(v)
Str(v) == IF v = NoneVal THEN <<"N", "o", "n", "e">> ELSE v

\* row.get(k) and row.get(k, d)
has_key(row, k) == k \in DOMAIN row /\ row[k] # Absent
get(row, k) == IF has_key(row, k) THEN row[k] ELSE NoneVal
get_default(row, k, d) == IF has_key(row, k) THEN row[k] ELSE d

\* None as a client row; bool(row) is false for None and for the empty dict.
NoRow == <<>>
RowTruthy(row) == row # NoRow /\ \E k \in DOMAIN row : row[k] # Absent

\* self.menu before any _refresh_sheets reached it (the attribute is not there),
\* and once it holds rows.
Unset == [set |-> FALSE, rows |-> <<>>]
SetTo(rows) == [set |-> TRUE, rows |-> rows]

\* What a call that raised yields.
Raised == <<"<raised>">>

RowKeys ==
    {"Email", "Client Id", "Booking Id", "Name", "Workfow Stage", "Workflow Stage",
     "WorkFlow", "Workfow", "Room Alloted", "Id Link"}

\* A row holding the columns of f and no other.
Row(f) == [k \in RowKeys |-> IF k \in DOMAIN f THEN f[k] ELSE Absent]

(***************************************************************************)
(* The policy evaluator                                                    *)
(***************************************************************************)
Placeholders == {<<"-">>, <<"n", "o", "n", "e">>, <<>>, <<"n", "/", "a">>}

\* The workflow stage as _is_user_booked reads it.
workflow_stage(client_row) ==
    lower(strip(Str(Or(get(client_row, "Workfow Stage"),
                    Or(get(client_row, "Workflow Stage"),
                    Or(get(client_row, "WorkFlow"),
                    Or(get(client_row, "Workfow"), <<>>)))))))

\* A slip of the kind the code invites: the stage compared without lower().
mut_is_user_booked(client_row) ==
    IF ~RowTruthy(client_row) THEN FALSE
    ELSE LET wf == strip(Str(Or(get(client_row, "Workfow Stage"),
                             Or(get(client_row, "Workflow Stage"),
                             Or(get(client_row, "WorkFlow"),
                             Or(get(client_row, "Workfow"), <<>>))))))
             booking_id == strip(Str(Or(get(client_row, "Booking Id"), <<>>)))
             room == strip(Str(Or(get(client_row, "Room Alloted"), <<>>)))
         IN  \/ wf = <<"c", "o", "n", "f", "i", "r", "m", "e", "d">>
             \/ booking_id # <<>> /\ booking_id \notin Placeholders
             \/ room # <<>> /\ room \notin Placeholders

_is_user_booked(client_row) ==
    IF ~RowTruthy(client_row) THEN FALSE
    ELSE LET wf == workflow_stage(client_row)
             booking_id == strip(Str(Or(get(client_row, "Booking Id"), <<>>)))
             room == strip(Str(Or(get(client_row, "Room Alloted"), <<>>)))
         IN  IF wf = <<"c", "o", "n", "f", "i", "r", "m", "e", "d">> THEN TRUE
             ELSE IF booking_id # <<>> /\ booking_id \notin Placeholders THEN TRUE
             ELSE IF room # <<>> /\ room \notin Placeholders THEN TRUE
             ELSE FALSE

\* A slip: the link tested before it is stripped and lower-cased.
mut_is_id_verified(client_row) ==
    IF ~RowTruthy(client_row) THEN FALSE
    ELSE LET id_link == get(client_row, "Id Link")
         IN  IF ~Truthy(id_link) THEN FALSE
             ELSE id_link = <<"d", "o", "n", "e">> \/ contains(id_link, <<"h", "t", "t", "p">>)

_is_id_verified(client_row) ==
    IF ~RowTruthy(client_row) THEN FALSE
    ELSE LET id_link == get(client_row, "Id Link")
         IN  IF ~Truthy(id_link) THEN FALSE
             ELSE LET l == lower(strip(Str(id_link)))
                  IN  l = <<"d", "o", "n", "e">> \/ contains(l, <<"h", "t", "t", "p">>)

(***************************************************************************)
(* SpecPolicy: _is_user_booked and _is_id_verified applied to every row of *)
(* PolicyRows.  The bot itself is not running in this specification.       *)
(***************************************************************************)
Confirmed == <<"c", "o", "n", "f", "i", "r", "m", "e", "d">>
WfKeys == {"Workfow Stage", "Workflow Stage", "WorkFlow", "Workfow"}

StageValues ==
    {Absent, NoneVal, <<>>,
     <<"C", "o", "n", "f", "i", "r", "m", "e", "d">>,
     <<" ", "C", "O", "N", "F", "I", "R", "M", "E", "D", "\n">>,
     <<"p", "e", "n", "d", "i", "n", "g">>}
StageValues2 == {Absent, <<"C", "o", "n", "f", "i", "r", "m", "e", "d">>, <<"p", "e", "n", "d", "i", "n", "g">>}
StageValues3 == {Absent, <<"c", "o", "n", "f", "i", "r", "m", "e", "d">>}
BookingValues ==
    {Absent, NoneVal, <<>>, <<"-">>, <<"n", "o", "n", "e">>, <<"N", "o", "n", "e">>,
     <<" ", "n", "/", "a">>, <<"N", "/", "A">>, <<"B", "1">>}
RoomValues == {Absent, <<>>, <<"-">>, <<"N", "O", "N", "E">>, <<"n", "/", "a">>, <<"1", "0", "1">>}
IdLinkValues ==
    {Absent, NoneVal, <<>>, <<" ">>, <<"d", "o", "n", "e">>, <<" ", "D", "O", "N", "E", " ">>,
     <<"d", "o", "n", "e", "!">>, <<"h", "t", "t", "p", ":", "x">>,
     <<"x", " ", "H", "T", "T", "P", "x">>, <<"p", "e", "n", "d", "i", "n", "g">>}

PolicyRows ==
    {NoRow} \cup
    { Row([k \in WfKeys \cup {"Booking Id", "Room Alloted", "Id Link"} |->
              CASE k = "Workfow Stage" -> w1
                [] k = "Workflow Stage" -> w2
                [] k = "WorkFlow" -> w3
                [] k = "Workfow" -> Absent
                [] k = "Booking Id" -> b
                [] k = "Room Alloted" -> r
                [] k = "Id Link" -> l]) :
        w1 \in StageValues, w2 \in StageValues2, w3 \in StageValues3,
        b \in BookingValues, r \in RoomValues, l \in IdLinkValues }

NotRunning ==
    /\ chat_history = <<>>
    /\ qna_rows = <<>>
    /\ dos_donts = <<>>
    /\ campaigns = <<>>
    /\ menu = Unset
    /\ client_rows = <<>>
    /\ use_sheet = FALSE
    /\ retriever = "unset"
    /\ sheet = ""
    /\ now = 0
    /\ loaded_by = <<>>
    /\ refreshes = 0
    /\ calls = <<>>
    /\ last = <<>>
    /\ thr = <<>>
    /\ appends = <<>>

InitPolicy ==
    /\ NotRunning
    /\ fn \in {[row |-> r, booked |-> {}, verified |-> {}] : r \in PolicyRows}

EvalBooked ==
    /\ fn.booked = {}
    /\ fn' = [fn EXCEPT !.booked = {_is_user_booked(fn.row)}]
    /\ UNCHANGED <<bot_vars, env_vars, log_vars, thr>>

EvalVerified ==
    /\ fn.verified = {}
    /\ fn' = [fn EXCEPT !.verified = {_is_id_verified(fn.row)}]
    /\ UNCHANGED <<bot_vars, env_vars, log_vars, thr>>

NextPolicy == EvalBooked \/ EvalVerified

SpecPolicy == InitPolicy /\ [][NextPolicy]_vars

\* What a cell holds once None and a missing column are read as "".
cell(row, k) == IF Truthy(row[k]) THEN lower(strip(row[k])) ELSE <<>>

\* The row has one workflow-stage column (under any of the four spellings the
\* code accepts) and it reads 'confirmed'.
StageIsConfirmed(row) ==
    \E k \in WfKeys :
        /\ cell(row, k) = Confirmed
        /\ \A j \in WfKeys \ {k} : ~Truthy(row[j])

\* No spelling of the workflow-stage column reads 'confirmed'.
StageNotConfirmed(row) == \A k \in WfKeys : cell(row, k) # Confirmed

\* C8: a record whose stage is not 'confirmed' and whose booking id and room
\* are placeholders ('-', 'none', '', 'n/a' in any casing) is not booked.
C8_PlaceholdersNotBooked ==
    (/\ fn.booked # {}
     /\ fn.row # NoRow
     /\ StageNotConfirmed(fn.row)
     /\ cell(fn.row, "Booking Id") \in Placeholders
     /\ cell(fn.row, "Room Alloted") \in Placeholders)
        => fn.booked = {FALSE}

\* C8 restricted to placeholders written in lower case, which the code does detect.
C8_LowerCasePlaceholdersReached ==
    /\ fn.booked = {FALSE}
    /\ fn.row # NoRow
    /\ fn.row["Booking Id"] = <<" ", "n", "/", "a">>
    /\ fn.row["Room Alloted"] = <<"-">>

\* C9: a record whose workflow stage reads 'confirmed' (any casing, surrounding
\* whitespace ignored) is booked, whatever its booking id and room hold.
C9_ConfirmedIsBooked ==
    (fn.booked # {} /\ fn.row # NoRow /\ StageIsConfirmed(fn.row)) => fn.booked = {TRUE}

C9_Witness ==
    /\ fn.booked = {TRUE}
    /\ fn.row # NoRow
    /\ StageIsConfirmed(fn.row)
    /\ fn.row["Workfow Stage"] = <<" ", "C", "O", "N", "F", "I", "R", "M", "E", "D", "\n">>
    /\ fn.row["Booking Id"] = <<"-">>
    /\ fn.row["Room Alloted"] = Absent

\* What the identity-proof value says, per the rule: 'done' or an http-like substring.
ProofSaysVerified(v) ==
    LET t == lower(strip(v))
    IN  t = <<"d", "o", "n", "e">> \/ contains(t, <<"h", "t", "t", "p">>)

\* C10: _is_id_verified is true iff the identity-proof field, trimmed and
\* lower-cased, is 'done' or contains 'http'; false when missing, null or empty.
C10_VerifiedIff ==
    (fn.verified # {} /\ fn.row # NoRow) =>
        LET v == fn.row["Id Link"]
        IN  fn.verified = {IF v \in {Absent, NoneVal, <<>>} THEN FALSE ELSE ProofSaysVerified(v)}

C10_Witness ==
    /\ fn.verified = {TRUE}
    /\ fn.row # NoRow
    /\ fn.row["Id Link"] = <<"x", " ", "H", "T", "T", "P", "x">>

(***************************************************************************)
(* The prompt composer.  A text is a sequence whose elements are single    *)
(* characters (the data spliced in) or whole literal pieces of the         *)
(* f-strings, so a block of the prompt is found by its literal header.     *)
(***************************************************************************)
\* "AI Assistant", the name used when data/agents.json names no Front Desk agent.
agent_name == <<"AI Assistant">>

RulesHeader == "\n\n(clipboard) **Important Communication Rules:**\n"
CampaignsHeader == "\n\n(megaphone) **Active Campaigns / Promos:**\n"
MenuHeader == "\n\n(clipboard) **Menu / Services:**\n"
HistoryHeader == "\nPrevious conversation context:\n"
RequiredFraming ==
    "For in-room services, spa bookings, or amenity access, politely explain that a confirmed booking and ID verification are required.\n\n"
HandleDirectly ==
    "Handle all in-room service requests directly and create service tickets for guest requests.\n\n"

\* seq[:n] and seq[-n:]
first_n(seq, n) == SubSeq(seq, 1, IF Len(seq) < n THEN Len(seq) ELSE n)
last_n(seq, n) == SubSeq(seq, IF Len(seq) > n THEN Len(seq) - n + 1 ELSE 1, Len(seq))

RECURSIVE concat(_)
\* The concatenation of the texts of a sequence, in order.
concat(texts) ==
    IF texts = <<>> THEN <<>> ELSE Head(texts) \o concat(Tail(texts))

rule_line(entry) ==
    LET do == strip(Str(Or(entry.do, <<>>)))
        dont == strip(Str(Or(entry.dont, <<>>)))
    IN  (IF do # <<>> THEN <<"- (tick) Do: ">> \o do \o <<"\n">> ELSE <<>>)
        \o (IF dont # <<>> THEN <<"- (cross) Don't: ">> \o dont \o <<"\n">> ELSE <<>>)

campaign_line(campaign) ==
    LET title == Or(get(campaign, "Name"), Or(get(campaign, "Title"), <<>>))
        desc == Or(get(campaign, "Description"), Or(get(campaign, "Desc"), <<>>))
    IN  IF Truthy(title) \/ Truthy(desc)
        THEN <<"- ">> \o title \o <<" ">>
             \o (IF Truthy(desc) THEN <<"- ">> \o desc ELSE <<>>) \o <<"\n">>
        ELSE <<>>

menu_line(item) ==
    LET type_ == Or(get(item, "Type"), <<>>)
        name == Or(get(item, "Item"), <<>>)
        price == Or(get(item, "Price"), <<>>)
        desc == Or(get(item, "Description"), <<>>)
    IN  <<"- ">> \o type_ \o <<" ">> \o name \o <<" ">>
        \o (IF Truthy(price) THEN <<"- ">> \o Str(price) ELSE <<>>) \o <<" ">>
        \o (IF Truthy(desc) THEN <<"- ">> \o desc ELSE <<>>) \o <<"\n">>

history_line(msg) ==
    <<IF msg.role = "user" THEN "User" ELSE "Assistant", ": ">> \o msg.text \o <<"\n">>

\* rules_text of _build_prompt
rules_text(self) ==
    IF self.dos_donts # <<>>
    THEN <<RulesHeader>> \o concat([i \in DOMAIN self.dos_donts |-> rule_line(self.dos_donts[i])])
    ELSE <<>>

\* campaigns_text of _build_prompt
campaigns_text(self, is_booked, is_verified) ==
    IF self.campaigns # <<>> /\ (is_booked /\ is_verified)
    THEN <<CampaignsHeader>>
         \o concat([i \in DOMAIN first_n(self.campaigns, 5) |-> campaign_line(self.campaigns[i])])
    ELSE <<>>

\* menu_text of _build_prompt
menu_text(self, is_booked, is_verified) ==
    IF self.menu.rows # <<>> /\ (is_booked /\ is_verified)
    THEN <<MenuHeader>> \o concat([i \in DOMAIN self.menu.rows |-> menu_line(self.menu.rows[i])])
    ELSE <<>>

\* chat_history_text with the first five turns in place of the last five.
mut_chat_history_text(self, session_id) ==
    IF Truthy(session_id) /\ session_id \in DOMAIN self.chat_history
    THEN LET recent == first_n(self.chat_history[session_id], 5)
         IN  <<HistoryHeader>> \o concat([i \in DOMAIN recent |-> history_line(recent[i])])
    ELSE <<>>

\* chat_history_text of _build_prompt
chat_history_text(self, session_id) ==
    IF Truthy(session_id) /\ session_id \in DOMAIN self.chat_history
    THEN LET recent == last_n(self.chat_history[session_id], 5)
         IN  <<HistoryHeader>> \o concat([i \in DOMAIN recent |-> history_line(recent[i])])
    ELSE <<>>

\* A slip: "and" written for "or" in the test that picks the restricted prompt.
mut_restricted(is_booked, is_verified) == ~is_booked /\ ~is_verified

\* The test that picks the restricted prompt.
restricted(is_booked, is_verified) == ~is_booked \/ ~is_verified

Preamble ==
    <<"You are an AI agent named ">> \o agent_name
    \o <<", a knowledgeable and polite concierge assistant at ILORA RETREATS. ">>

_build_prompt(self, hotel_data, query, session_id, is_booked, is_verified) ==
    \* self.menu is read before the status is: AttributeError when it is not set
    IF ~self.menu.set THEN Raised
    ELSE IF restricted(is_booked, is_verified)
    THEN Preamble
         \o <<RequiredFraming>>
         \o <<"Status: ">>
         \o <<IF ~is_booked THEN "Not Booked" ELSE "Booked but ID Not Verified">>
         \o <<"\n\n">>
         \o <<"Hotel Data:\n">> \o hotel_data \o <<"\n\n">>
         \o chat_history_text(self, session_id) \o <<"\n">>
         \o <<"Guest Query: ">> \o query \o <<"\n">>
         \o rules_text(self)
    ELSE Preamble
         \o <<HandleDirectly>>
         \o <<"Hotel Data:\n">> \o hotel_data \o <<"\n\n">>
         \o menu_text(self, is_booked, is_verified) \o <<"\n\n">>
         \o chat_history_text(self, session_id) \o <<"\n">>
         \o <<"Guest Query: ">> \o query \o <<"\n">>
         \o rules_text(self)
         \o campaigns_text(self, is_booked, is_verified)

(***************************************************************************)
(* SpecPrompt: _build_prompt applied to every status, with the menu, the   *)
(* campaigns, the rules and the history drawn from small sets.             *)
(***************************************************************************)
Pool == <<"p", "o", "o", "l">>
Tea == <<"t", "e", "a">>
Spa == <<"S", "p", "a">>

MenuItem(type_, name, price, desc) ==
    [Type |-> type_, Item |-> name, Price |-> price, Description |-> desc]
Campaign(name, title, description, desc) ==
    [Name |-> name, Title |-> title, Description |-> description, Desc |-> desc]

MenuChoices ==
    {Unset, SetTo(<<>>),
     SetTo(<<MenuItem(<<"F">>, Tea, <<"5">>, <<>>)>>),
     SetTo(<<MenuItem(<<"F">>, Tea, NoneVal, <<"h", "o", "t">>),
             MenuItem(Absent, Spa, <<"9">>, Absent)>>)}
CampaignChoices ==
    {<<>>,
     <<Campaign(Spa, Absent, <<"o", "f", "f">>, Absent)>>,
     <<Campaign(<<>>, Absent, NoneVal, <<>>)>>,
     <<Campaign(<<"1">>, Absent, Absent, Absent), Campaign(Absent, <<"2">>, Absent, Absent),
       Campaign(<<"3">>, Absent, Absent, Absent), Campaign(<<"4">>, Absent, Absent, Absent),
       Campaign(<<"5">>, Absent, Absent, <<"d">>), Campaign(<<"6">>, Absent, Absent, Absent)>>}
RuleChoices == {<<>>, <<[do |-> <<"b", "e">>, dont |-> <<>>], [do |-> <<" ">>, dont |-> <<"n", "o">>]>>}

Turn(role, text, timestamp) == [role |-> role, text |-> text, timestamp |-> timestamp]

AliceKey == <<"a", "@", "x">>
HistoryChoices ==
    {<<>>,
     AliceKey :> <<Turn("user", Pool, 0)>>,
     AliceKey :> <<Turn("user", Pool, 0), Turn("assistant", Tea, 0), Turn("user", Tea, 1)>>}

InitPrompt ==
    /\ chat_history \in HistoryChoices
    /\ qna_rows = <<>>
    /\ dos_donts \in RuleChoices
    /\ campaigns \in CampaignChoices
    /\ menu \in MenuChoices
    /\ client_rows = <<>>
    /\ use_sheet = FALSE
    /\ retriever = "unset"
    /\ sheet = ""
    /\ now = 0
    /\ loaded_by = <<>>
    /\ refreshes = 0
    /\ calls = <<>>
    /\ last = <<>>
    /\ thr = <<>>
    /\ appends = <<>>
    /\ fn \in [hotel_data : {<<>>, Pool}, query : {Tea}, session_id : {NoneVal, AliceKey},
               is_booked : BOOLEAN, is_verified : BOOLEAN, out : {{}}]

BuildPrompt ==
    /\ fn.out = {}
    /\ fn' = [fn EXCEPT !.out = {_build_prompt(Self, fn.hotel_data, fn.query, fn.session_id,
                                               fn.is_booked, fn.is_verified)}]
    /\ UNCHANGED <<bot_vars, env_vars, log_vars, thr>>

NextPrompt == BuildPrompt

SpecPrompt == InitPrompt /\ [][NextPrompt]_vars

has_menu_block(p) == contains(p, <<MenuHeader>>)
has_campaigns_block(p) == contains(p, <<CampaignsHeader>>)
has_required_framing(p) == contains(p, <<RequiredFraming>>)

\* C3: the composed prompt holds the menu block or the campaigns block only if
\* is_booked and is_verified are both true; when either is false it holds
\* neither block and holds the 'confirmed booking and ID verification are
\* required' framing.
C3_GatedBlocks ==
    \A p \in fn.out :
        p # Raised =>
            /\ (has_menu_block(p) \/ has_campaigns_block(p)) => (fn.is_booked /\ fn.is_verified)
            /\ ~(fn.is_booked /\ fn.is_verified) =>
                   /\ ~has_menu_block(p)
                   /\ ~has_campaigns_block(p)
                   /\ has_required_framing(p)

\* A booked guest whose ID is not verified, with a menu and campaigns on file:
\* the prompt is composed and is the restricted one.
C3_Witness ==
    /\ fn.is_booked /\ ~fn.is_verified
    /\ menu.rows # <<>>
    /\ campaigns # <<>>
    /\ \E p \in fn.out : p # Raised /\ has_required_framing(p) /\ ~has_menu_block(p)

\* The blocks do appear for a booked and verified guest.
PromptWithBothBlocks ==
    /\ fn.is_booked /\ fn.is_verified
    /\ \E p \in fn.out : p # Raised /\ has_menu_block(p) /\ has_campaigns_block(p)

(***************************************************************************)
(* The spreadsheet behind the web app.  It is edited by the hotel's staff  *)
(* at any time; the model moves it between the editions below.             *)
(***************************************************************************)
AliceEmail == <<"a", "@", "x">>

AlicePending ==
    Row(("Email" :> AliceEmail) @@ ("Client Id" :> <<"C", "1">>) @@ ("Name" :> <<"A", "l">>)
        @@ ("Workfow Stage" :> <<"p", "e", "n", "d", "i", "n", "g">>)
        @@ ("Booking Id" :> <<"-">>) @@ ("Room Alloted" :> <<>>) @@ ("Id Link" :> <<>>))
AliceConfirmed ==
    Row(("Email" :> AliceEmail) @@ ("Client Id" :> <<"C", "1">>) @@ ("Name" :> <<"A", "l">>)
        @@ ("Workfow Stage" :> <<"C", "o", "n", "f", "i", "r", "m", "e", "d">>)
        @@ ("Booking Id" :> <<"B", "1">>) @@ ("Room Alloted" :> <<"1", "0", "1">>)
        @@ ("Id Link" :> <<"h", "t", "t", "p", ":", "x">>))
\* A guest entered without an email address.
BobNoEmail ==
    Row(("Email" :> <<>>) @@ ("Client Id" :> <<"C", "2">>) @@ ("Name" :> <<"B", "o">>)
        @@ ("Workfow Stage" :> <<"C", "o", "n", "f", "i", "r", "m", "e", "d">>)
        @@ ("Booking Id" :> <<"B", "2">>) @@ ("Id Link" :> <<"D", "O", "N", "E">>))

QnaPool == ("question" :> <<"p", "o", "o", "l", "?">>) @@ ("answer" :> <<"y", "e", "s">>)
QnaTea == ("topic" :> Tea) @@ ("text" :> <<"a", "t", " ", "5">>)

Editions == {"opening", "alice_enquires", "alice_checked_in"}

\* The tabs, by the names __init__ gives them.
Tabs(qna, dos, camp, menu_, clients) ==
    ("QnA_Manager" :> qna) @@ ("Dos and Donts" :> dos) @@ ("Campaigns_Manager" :> camp)
    @@ ("menu_manager" :> menu_) @@ ("Client_workflow" :> clients)

\* The rows of each tab in each edition.
SheetData ==
    [e \in Editions |->
        CASE e = "opening" -> Tabs(<<>>, <<>>, <<>>, <<>>, <<>>)
          [] e = "alice_enquires" ->
                Tabs(<<QnaPool>>,
                     <<("Do" :> <<"b", "e">>) @@ ("Don't" :> <<>>)>>,
                     <<Campaign(Spa, Absent, <<"o", "f", "f">>, Absent)>>,
                     <<MenuItem(<<"F">>, Tea, <<"5">>, <<>>)>>,
                     <<AlicePending>>)
          [] e = "alice_checked_in" ->
                Tabs(<<QnaTea, QnaPool>>,
                     <<("do" :> <<"b", "e">>) @@ ("Dont" :> <<" ", "n", "o">>)>>,
                     <<Campaign(Spa, Absent, <<"o", "f", "f">>, Absent)>>,
                     <<MenuItem(<<"F">>, Tea, <<"5">>, <<>>), MenuItem(Absent, Spa, <<"9">>, Absent)>>,
                     <<BobNoEmail, AliceConfirmed>>)]

\* What _fetch_sheet_data returns when the request succeeds.
_fetch_sheet_data(sheet_name) == SheetData[sheet][sheet_name]

\* The tabs in the order _refresh_sheets fetches them.
FetchOrder == <<"QnA_Manager", "Dos and Donts", "Campaigns_Manager", "menu_manager", "Client_workflow">>

\* One row of the Dos and Donts tab as _refresh_sheets keeps it.
processed_rule(row) ==
    LET do_val == Or(get(row, "Do"), Or(get(row, "do"), Or(get(row, "Do's"),
                  Or(get(row, "Do_s"), Or(get(row, "Do / Don't"), <<>>)))))
        dont_val == Or(get(row, "Don't"), Or(get(row, "Dont"), Or(get(row, "dont"),
                    Or(get(row, "Don'ts"), Or(get(row, "Dont_s"), <<>>)))))
    IN  [do |-> strip(Str(do_val)), dont |-> strip(Str(dont_val))]

\* Whether the n-th fetch of a refresh is reached and succeeds, when fetch
\* number fail_at raises (0: none does).
Stored(n, fail_at) == fail_at = 0 \/ n < fail_at

\* The bot after _refresh_sheets: each attribute is assigned as soon as its tab
\* is fetched, so a fetch that raises leaves the earlier ones assigned.
_refresh_sheets(self, fail_at) ==
    [self EXCEPT
        !.qna_rows = IF Stored(1, fail_at) THEN _fetch_sheet_data("QnA_Manager") ELSE @,
        !.dos_donts =
            IF Stored(2, fail_at)
            THEN LET raw_dos == _fetch_sheet_data("Dos and Donts")
                 IN  [i \in DOMAIN raw_dos |-> processed_rule(raw_dos[i])]
            ELSE @,
        !.campaigns = IF Stored(3, fail_at) THEN _fetch_sheet_data("Campaigns_Manager") ELSE @,
        !.menu = IF Stored(4, fail_at) THEN SetTo(_fetch_sheet_data("menu_manager")) ELSE @,
        !.client_rows = IF Stored(5, fail_at) THEN _fetch_sheet_data("Client_workflow") ELSE @]

\* History variable: which refresh each of the five caches was stored by.
loaded_after(fail_at) ==
    [n \in 1..5 |-> IF Stored(n, fail_at) THEN refreshes + 1 ELSE loaded_by[n]]

(***************************************************************************)
(* Identity resolution and the history key                                 *)
(***************************************************************************)
RaisedRow == "<raised>" :> <<>>

RECURSIVE find_from(_, _, _)
\* The for loop of _find_client_row from row number i on.
find_from(rows, iid, i) ==
    IF i > Len(rows) THEN NoRow
    ELSE LET row == rows[i]
             email == get_default(row, "Email", <<>>)
         IN  IF email = NoneVal THEN RaisedRow      \* None has no strip()
             ELSE IF lower(strip(email)) = iid THEN row
             ELSE LET client_id == lower(strip(Str(Or(get(row, "Client Id"), <<>>))))
                      booking_id == lower(strip(Str(Or(get(row, "Booking Id"), <<>>))))
                      name == lower(strip(Str(Or(get(row, "Name"), <<>>))))
                  IN  IF iid # <<>> /\ (iid = client_id \/ iid = booking_id \/ iid = name)
                      THEN row
                      ELSE find_from(rows, iid, i + 1)

\* _find_client_row without the comparisons: the first row of the sheet.
mut_find_client_row(self, identifier) ==
    IF ~Truthy(identifier) \/ self.client_rows = <<>> THEN NoRow
    ELSE self.client_rows[1]

_find_client_row(self, identifier) ==
    IF ~Truthy(identifier) \/ self.client_rows = <<>> THEN NoRow
    ELSE find_from(self.client_rows, lower(strip(identifier)), 1)

Digit == <<"0", "1", "2", "3", "4", "5", "6", "7", "8", "9">>

RECURSIVE digits(_)
\* str(n) of a natural number
digits(n) == IF n < 10 THEN <<Digit[n + 1]>> ELSE digits(n \div 10) \o <<Digit[(n % 10) + 1]>>

UserPrefix == <<"u", "s", "e", "r", "_">>
SessionPrefix == <<"s", "e", "s", "s", "i", "o", "n", "_">>

\* _get_chat_history_key with the Client Id looked at before the Email.
mut_get_chat_history_key(client_row, user_identifier) ==
    IF RowTruthy(client_row) /\ Truthy(get(client_row, "Client Id")) THEN client_row["Client Id"]
    ELSE IF RowTruthy(client_row) /\ Truthy(get(client_row, "Email")) THEN client_row["Email"]
    ELSE IF Truthy(user_identifier) THEN UserPrefix \o user_identifier
    ELSE SessionPrefix \o digits(now)

_get_chat_history_key(client_row, user_identifier) ==
    IF RowTruthy(client_row) /\ Truthy(get(client_row, "Email")) THEN client_row["Email"]
    ELSE IF RowTruthy(client_row) /\ Truthy(get(client_row, "Client Id")) THEN client_row["Client Id"]
    ELSE IF Truthy(user_identifier) THEN UserPrefix \o user_identifier
    ELSE SessionPrefix \o digits(now)

(***************************************************************************)
(* The tabular-scoring retriever.  Scores are exact fractions <<n, d>>     *)
(* where the code computes floats.                                         *)
(***************************************************************************)
Alnum ==
    {"a", "b", "c", "d", "e", "f", "g", "h", "i", "j", "k", "l", "m", "n", "o", "p", "q",
     "r", "s", "t", "u", "v", "w", "x", "y", "z",
     "0", "1", "2", "3", "4", "5", "6", "7", "8", "9"}

RECURSIVE split(_, _, _)
\* str.split(): the maximal runs of non-whitespace of s, in order; word is the
\* run being read and done the runs read so far.
split(s, word, done) ==
    IF s = <<>> THEN (IF word = <<>> THEN done ELSE Append(done, word))
    ELSE IF Head(s) \in Whitespace
         THEN split(Tail(s), <<>>, IF word = <<>> THEN done ELSE Append(done, word))
         ELSE split(Tail(s), Append(word, Head(s)), done)

RECURSIVE join(_, _)
\* sep.join(parts)
join(parts, sep) ==
    IF parts = <<>> THEN <<>>
    ELSE IF Len(parts) = 1 THEN parts[1]
    ELSE parts[1] \o sep \o join(Tail(parts), sep)

_normalize_text(s) ==
    IF ~Truthy(s) THEN <<>>
    ELSE LET l == lower(s)
             cleaned == [i \in DOMAIN l |-> IF l[i] \in Alnum \cup Whitespace THEN l[i] ELSE " "]
         IN  \* runs of whitespace collapsed to one space, then strip()
             join(split(cleaned, <<>>, <<>>), <<" ">>)

Min(x, y) == IF x < y THEN x ELSE y

RECURSIVE run_length(_, _, _, _)
\* The length of the common run of a and b that starts at a[i] and b[j].
run_length(a, b, i, j) ==
    IF i <= Len(a) /\ j <= Len(b) /\ a[i] = b[j] THEN 1 + run_length(a, b, i + 1, j + 1) ELSE 0

\* The earliest of the blocks of size k: earliest in a, then earliest in b.
earliest(blocks, k) ==
    CHOOSE r \in blocks :
        /\ r[3] = k
        /\ \A q \in blocks : q[3] = k => (r[1] < q[1] \/ (r[1] = q[1] /\ r[2] <= q[2]))

\* The size of the longest of the blocks.
longest(sizes) == CHOOSE k \in sizes : \A m \in sizes : m <= k

\* SequenceMatcher.find_longest_match without junk: the longest common block,
\* the one starting earliest in a, and of those the one starting earliest in b.
find_longest_match(a, b) ==
    LET blocks == {<<i, j, run_length(a, b, i, j)>> : i \in 1..Len(a), j \in 1..Len(b)}
               \cup {<<1, 1, 0>>}
    IN  earliest(blocks, longest({r[3] : r \in blocks}))

RECURSIVE matches(_, _)
\* The total size of SequenceMatcher.get_matching_blocks().
matches(a, b) ==
    IF a = <<>> \/ b = <<>> THEN 0
    ELSE LET m == find_longest_match(a, b)
         IN  IF m[3] = 0 THEN 0
             ELSE m[3]
                  + matches(SubSeq(a, 1, m[1] - 1), SubSeq(b, 1, m[2] - 1))
                  + matches(SubSeq(a, m[1] + m[3], Len(a)), SubSeq(b, m[2] + m[3], Len(b)))

\* SequenceMatcher(None, a, b).ratio(), as a fraction
ratio(a, b) ==
    IF Len(a) + Len(b) = 0 THEN <<1, 1>> ELSE <<2 * matches(a, b), Len(a) + Len(b)>>

Range(seq) == {seq[i] : i \in DOMAIN seq}

_score_doc(doc_text, query) ==
    IF ~Truthy(query) \/ ~Truthy(doc_text) THEN <<0, 1>>
    ELSE LET query_norm == _normalize_text(query)
             doc_norm == _normalize_text(doc_text)
             query_tokens == Range(split(query_norm, <<>>, <<>>))
             doc_tokens == Range(split(doc_norm, <<>>, <<>>))
         IN  IF query_tokens = {} \/ doc_tokens = {} THEN <<0, 1>>
             ELSE LET on == Cardinality(query_tokens \cap doc_tokens)
                      od == Min(Cardinality(query_tokens), Cardinality(doc_tokens))
                      seq_sim == ratio(query_norm, doc_norm)
                  IN  \* 0.65 * overlap + 0.35 * seq_sim
                      <<65 * on * seq_sim[2] + 35 * seq_sim[1] * od, 100 * od * seq_sim[2]>>

\* The columns of the QnA tab, in the order of the sheet (the order of row.values()).
QnaColumns == <<"question", "q", "query", "prompt", "answer", "a", "response", "reply", "topic", "text">>

\* The first of keys that row holds a truthy value for, as prefix + value; else nothing.
first_field(row, keys, prefix) ==
    LET hits == {i \in DOMAIN keys : Truthy(get(row, keys[i]))}
    IN  IF hits = {} THEN <<>>
        ELSE <<prefix \o row[keys[CHOOSE i \in hits : \A h \in hits : i <= h]]>>

_row_to_doc_text(row) ==
    LET text_parts == first_field(row, <<"question", "q", "query", "prompt">>, <<"Q", ":", " ">>)
                      \o first_field(row, <<"answer", "a", "response", "reply">>, <<"A", ":", " ">>)
    IN  IF text_parts # <<>> THEN join(text_parts, <<"\n">>)
        ELSE LET present == SelectSeq(QnaColumns, LAMBDA c : Truthy(get(row, c)))
             IN  join([i \in DOMAIN present |-> Str(row[present[i]])], <<" ", "|", " ">>)

\* self.retriever_k
retriever_k == 5

\* x >= y for fractions with positive denominators
at_least(x, y) == x[1] * y[2] >= y[1] * x[2]

RECURSIVE mut_sorted_desc(_, _)
\* The sort placing an entry before the entries of equal score.
mut_sorted_desc(done, rest) ==
    IF rest = <<>> THEN done
    ELSE LET x == Head(rest)
             ahead == Cardinality({p \in DOMAIN done : ~at_least(x.score, done[p].score)})
         IN  mut_sorted_desc(SubSeq(done, 1, ahead) \o <<x>> \o SubSeq(done, ahead + 1, Len(done)),
                             Tail(rest))

RECURSIVE sorted_desc(_, _)
\* scored_results.sort(key=score, reverse=True): a stable sort, so an entry goes
\* after the entries before it in the list whose score is at least its own.
\* done is the sorted part, rest the entries still to place.
sorted_desc(done, rest) ==
    IF rest = <<>> THEN done
    ELSE LET x == Head(rest)
             ahead == Cardinality({p \in DOMAIN done : at_least(done[p].score, x.score)})
         IN  sorted_desc(SubSeq(done, 1, ahead) \o <<x>> \o SubSeq(done, ahead + 1, Len(done)),
                         Tail(rest))

RECURSIVE scored_from(_, _, _)
\* The loop of _retrieve_from_sheets over the rows from number i on.
scored_from(rows, query, i) ==
    IF i > Len(rows) THEN <<>>
    ELSE LET doc_text == _row_to_doc_text(rows[i])
         IN  <<[page_content |-> doc_text, score |-> _score_doc(doc_text, query),
                metadata |-> rows[i]]>> \o scored_from(rows, query, i + 1)

_retrieve_from_sheets(self, query, k) ==
    IF self.qna_rows = <<>> THEN <<>>
    ELSE first_n(sorted_desc(<<>>, scored_from(self.qna_rows, query, 1)), k)

(***************************************************************************)
(* ConciergeBot.__init__ and ConciergeBot.ask                              *)
(***************************************************************************)
Apology ==
    <<"I apologize, but I encountered an issue while processing your request. Please try again or contact our front desk for assistance.">>

\* The completion call raising, as a value of the completion input.
CompletionRaises == <<"<raises>">>

\* The number of turns the trim at the end of ask keeps.
KeepLast == 50

\* The bot before __init__ loads anything; sheet_api is configured, so use_sheet
\* starts true, and neither self.menu nor self.retriever exists yet.
Blank ==
    [chat_history |-> <<>>, qna_rows |-> <<>>, dos_donts |-> <<>>, campaigns |-> <<>>,
     menu |-> Unset, client_rows |-> <<>>, use_sheet |-> TRUE, retriever |-> "unset"]

\* What _load_dos_donts_from_file returns: data/dos_donts.json is not there.
_load_dos_donts_from_file == <<>>

\* The bot __init__ leaves: fetch number fail_at of its refresh raises (0: none),
\* fallback is what the vector store set-up yields.
__init__(fail_at, fallback) ==
    LET loaded == _refresh_sheets(Blank, fail_at)
        chosen == IF fail_at = 0 THEN loaded
                  ELSE [loaded EXCEPT !.use_sheet = FALSE, !.retriever = fallback]
    IN  IF chosen.dos_donts = <<>>
        THEN [chosen EXCEPT !.dos_donts = _load_dos_donts_from_file]
        ELSE chosen

\* ask without its except branch: the exception reaches the caller.
mut_Result(self, returned, raised_in, key, is_booked, is_verified, prompt) ==
    [self |-> self, returned |-> IF raised_in # "" THEN Raised ELSE returned,
     raised_in |-> raised_in, key |-> key,
     is_booked |-> is_booked, is_verified |-> is_verified, prompt |-> prompt]

\* What ask leaves and returns.
Result(self, returned, raised_in, key, is_booked, is_verified, prompt) ==
    [self |-> self, returned |-> returned, raised_in |-> raised_in, key |-> key,
     is_booked |-> is_booked, is_verified |-> is_verified, prompt |-> prompt]

\* self.chat_history after the `not in` test, the creation and the append.
appended(history, key, turn) ==
    IF key \in DOMAIN history
    THEN [history EXCEPT ![key] = Append(@, turn)]
    ELSE history @@ (key :> <<turn>>)

\* The trim keeping the oldest turns instead of the newest.
mut_trimmed(history, key) ==
    IF Len(history[key]) > KeepLast
    THEN [history EXCEPT ![key] = first_n(@, KeepLast)]
    ELSE history

\* The trim at the end of ask.
trimmed(history, key) ==
    IF Len(history[key]) > KeepLast
    THEN [history EXCEPT ![key] = last_n(@, KeepLast)]
    ELSE history

\* ask(query, user_identifier=...) on the bot self.  The inputs that are not
\* arguments are what the outside world does during the call: fetch number
\* fail_at raises (0: none), retrieval = "raises" when _retrieve_from_sheets
\* raises, vector is what the fallback retriever does, completion is the
\* model's reply or CompletionRaises.
ask(self, query, user_identifier, fail_at, retrieval, vector, completion) ==
    LET refreshed == IF self.use_sheet THEN _refresh_sheets(self, fail_at) ELSE self
        client_row == IF Truthy(user_identifier)
                      THEN _find_client_row(refreshed, user_identifier)
                      ELSE NoRow
    IN  IF client_row = RaisedRow
        THEN Result(refreshed, Apology, "_find_client_row", NoneVal, FALSE, FALSE, NoneVal)
        ELSE
        LET chat_history_key == _get_chat_history_key(client_row, user_identifier)
            asked == [refreshed EXCEPT
                         !.chat_history = appended(@, chat_history_key, Turn("user", query, now))]
            is_booked == IF RowTruthy(client_row) THEN _is_user_booked(client_row) ELSE FALSE
            id_verified == IF RowTruthy(client_row) THEN _is_id_verified(client_row) ELSE FALSE
            docs == IF asked.use_sheet /\ retrieval # "raises"
                    THEN _retrieve_from_sheets(asked, query, retriever_k)
                    ELSE <<>>
            failed(where, prompt) ==
                Result(asked, Apology, where, chat_history_key, is_booked, id_verified, prompt)
        IN  IF docs = <<>> /\ asked.retriever = "unset"
            THEN failed("self.retriever", NoneVal)          \* no such attribute
            ELSE IF docs = <<>> /\ asked.retriever = "faiss" /\ vector = "documents"
            THEN failed("page_content", NoneVal)            \* a Document has no get()
            ELSE
            LET hotel_data == join([i \in DOMAIN docs |-> docs[i].page_content], <<"\n", "\n">>)
                system_prompt == _build_prompt(asked, hotel_data, query, chat_history_key,
                                               is_booked, id_verified)
            IN  IF system_prompt = Raised THEN failed("_build_prompt", NoneVal)
                ELSE IF completion = CompletionRaises THEN failed("llm.invoke", system_prompt)
                ELSE
                LET final_answer == strip(completion)
                    answered == [asked EXCEPT
                                    !.chat_history =
                                        trimmed(appended(@, chat_history_key,
                                                         Turn("assistant", final_answer, now)),
                                                chat_history_key)]
                IN  Result(answered, final_answer, "", chat_history_key, is_booked,
                           id_verified, system_prompt)

(***************************************************************************)
(* Spec: one bot, its ask calls made one after another, the staff editing  *)
(* the spreadsheet and the clock advancing between the calls.              *)
(***************************************************************************)
MaxCalls == 2
MaxTime == 1

Queries == {<<"P", "o", "o", "l", "?">>}
Identifiers == {NoneVal, <<"A", "@", "X">>, <<"c", "2">>}
Completions == {CompletionRaises, <<"o", "k", " ">>}

NoCall ==
    [n |-> 0, query |-> NoneVal, user_identifier |-> NoneVal, key |-> NoneVal,
     returned |-> NoneVal, raised_in |-> "", is_booked |-> FALSE, is_verified |-> FALSE,
     prompt |-> NoneVal, refresh_failed |-> FALSE]

\* History variable: one more call that used key for user_identifier.
counted(bag, user_identifier, key) ==
    LET c == <<user_identifier, key>>
    IN  IF c \in DOMAIN bag THEN [bag EXCEPT ![c] = @ + 1] ELSE bag @@ (c :> 1)

Init ==
    /\ sheet \in Editions
    /\ now = 0
    /\ refreshes = 1
    /\ \E fail_at \in 0..5, fallback \in {"faiss", "none"} :
           /\ Becomes0(__init__(fail_at, fallback))
           /\ loaded_by = [n \in 1..5 |-> IF Stored(n, fail_at) THEN 1 ELSE 0]
    /\ calls = <<>>
    /\ last = NoCall
    /\ thr = <<>>
    /\ appends = <<>>
    /\ fn = <<>>

\* History variable: one more turn appended under key.
logged(log, key, turn) ==
    IF key \in DOMAIN log THEN [log EXCEPT ![key] = Append(@, turn)] ELSE log @@ (key :> <<turn>>)

Ask(query, user_identifier, fail_at, retrieval, vector, completion) ==
    \E out \in {ask(Self, query, user_identifier, fail_at, retrieval, vector, completion)} :
        /\ Becomes(out.self)
        /\ loaded_by' = IF use_sheet THEN loaded_after(fail_at) ELSE loaded_by
        /\ refreshes' = IF use_sheet THEN refreshes + 1 ELSE refreshes
        /\ calls' = IF out.key = NoneVal THEN calls
                    ELSE counted(calls, user_identifier, out.key)
        /\ last' = [n |-> last.n + 1, query |-> query, user_identifier |-> user_identifier,
                    key |-> out.key, returned |-> out.returned, raised_in |-> out.raised_in,
                    is_booked |-> out.is_booked, is_verified |-> out.is_verified,
                    prompt |-> out.prompt, refresh_failed |-> use_sheet /\ fail_at # 0]
        /\ appends' =
               IF out.key = NoneVal THEN appends
               ELSE LET asked == logged(appends, out.key, Turn("user", query, now))
                    IN  IF out.raised_in # "" THEN asked
                        ELSE logged(asked, out.key, Turn("assistant", out.returned, now))
        /\ UNCHANGED <<sheet, now, thr, fn>>

\* The inputs of a call that the bot can tell apart: a bot that does not use the
\* sheet fetches nothing and retrieves nothing from it, and only a bot with a
\* fallback retriever invokes it.
Distinguishable(fail_at, retrieval, vector) ==
    /\ use_sheet \/ (fail_at = 0 /\ retrieval = "ok")
    /\ retriever = "faiss" \/ vector = "empty"

AskNext ==
    /\ last.n < MaxCalls
    /\ \E query \in Queries, user_identifier \in Identifiers, fail_at \in 0..5,
          retrieval \in {"ok", "raises"}, vector \in {"raises", "empty", "documents"},
          completion \in Completions :
           /\ Distinguishable(fail_at, retrieval, vector)
           /\ Ask(query, user_identifier, fail_at, retrieval, vector, completion)

\* The staff edit the spreadsheet.
EditSheet ==
    /\ sheet' \in Editions \ {sheet}
    /\ UNCHANGED <<bot_vars, now, log_vars, thr, fn>>

\* A second passes.
Tick ==
    /\ now < MaxTime
    /\ now' = now + 1
    /\ UNCHANGED <<bot_vars, sheet, log_vars, thr, fn>>

Next == AskNext \/ EditSheet \/ Tick

Spec == Init /\ [][Next]_vars

\* C2: when the completion call fails, ask returns the apology and appends that
\* text as the assistant turn of the key, so that after every call each user
\* turn of every history is immediately followed by an assistant turn.
C2_ApologyIsAssistantTurn ==
    last.raised_in = "llm.invoke" =>
        LET turns == chat_history[last.key]
        IN  /\ last.returned = Apology
            /\ turns[Len(turns)].role = "assistant"
            /\ turns[Len(turns)].text = Apology
            /\ \A i \in DOMAIN turns :
                   turns[i].role = "user" => (i < Len(turns) /\ turns[i + 1].role = "assistant")

\* A call whose completion failed has returned the apology.
C2_CompletionFailed ==
    /\ last.raised_in = "llm.invoke"
    /\ last.returned = Apology

\* C5: after a turn, whether its refresh succeeded or failed part-way, the
\* cached QnA rows, rules, campaigns, menu and client rows were all stored by
\* one and the same refresh.
C5_OneSnapshot ==
    (last.n > 0 /\ use_sheet) => \A m, n \in 1..5 : loaded_by[m] = loaded_by[n]

\* A turn whose refresh raised part-way has completed.
C5_RefreshFailedPartWay ==
    /\ last.n > 0
    /\ use_sheet
    /\ last.refresh_failed

\* C6: any two calls that supply the same non-empty user_identifier use the
\* same history key, whatever the client sheet holds at each call.
C6_SameIdentifierSameKey ==
    \A c, d \in DOMAIN calls : (Truthy(c[1]) /\ c[1] = d[1]) => c[2] = d[2]

\* Two calls have supplied an identifier.
C6_TwoIdentifiedCalls ==
    /\ last.n = 2
    /\ \E c \in DOMAIN calls : Truthy(c[1])

\* C7: two distinct calls made with no user_identifier never use the same
\* history key, however close in time they are.
C7_FreshKeyPerUnidentifiedCall ==
    \A c \in DOMAIN calls : ~Truthy(c[1]) => calls[c] <= 1

\* A call without identifier has been given a session key.
C7_SessionKeyUsed ==
    \E c \in DOMAIN calls : ~Truthy(c[1]) /\ first_n(c[2], Len(SessionPrefix)) = SessionPrefix

(***************************************************************************)
(* SpecHistory: one guest's long conversation with the bot: every call is  *)
(* for the same identifier and the spreadsheet stays as it is.             *)
(***************************************************************************)
MaxLongCalls == 27
MaxFailures == 2

Guest == <<"c", "2">>

\* The user turns of all histories that no assistant turn follows.
unanswered(history) ==
    {<<key, i>> \in UNION {{key} \X DOMAIN history[key] : key \in DOMAIN history} :
        /\ history[key][i].role = "user"
        /\ (i = Len(history[key]) \/ history[key][i + 1].role = "user")}

InitHistory ==
    /\ Init
    /\ sheet = "alice_checked_in"
    /\ use_sheet

AskAgain ==
    /\ last.n < MaxLongCalls
    /\ Cardinality(unanswered(chat_history)) < MaxFailures
    /\ \E query \in Queries, completion \in Completions :
           Ask(query, Guest, 0, "ok", "empty", completion)

NextHistory == AskAgain

SpecHistory == InitHistory /\ [][NextHistory]_vars

\* C1: in every state reachable by ask calls, calls whose completion fails
\* included, the history stored under every key has at most 50 turns.
C1_HistoryAtMostFifty ==
    \A key \in DOMAIN chat_history : Len(chat_history[key]) <= KeepLast

\* A history has been trimmed to the last 50 turns by a call that succeeded.
C1_TrimmedToFifty ==
    /\ last.n > KeepLast \div 2
    /\ last.raised_in = ""
    /\ \E key \in DOMAIN chat_history : Len(chat_history[key]) = KeepLast

\* short is what remains of long when turns are removed from its front.
is_suffix(short, long) ==
    /\ Len(short) <= Len(long)
    /\ short = SubSeq(long, Len(long) - Len(short) + 1, Len(long))

\* C14: after any sequence of sequential ask calls the history under a key is
\* a contiguous suffix of the sequence of all the turns ever appended under
\* that key: never reordered, never duplicated, only the oldest removed.
C14_HistoryIsSuffixOfAppends ==
    /\ DOMAIN chat_history = DOMAIN appends
    /\ \A key \in DOMAIN chat_history : is_suffix(chat_history[key], appends[key])

\* Turns have been removed from a history that also holds a user turn that got
\* no answer.
C14_Witness ==
    \E key \in DOMAIN chat_history :
        /\ Len(chat_history[key]) < Len(appends[key])
        /\ \E k \in unanswered(chat_history) : k[1] = key

(***************************************************************************)
(* SpecConc: ask calls for one guest running in threads of one process.    *)
(* ConciergeBot takes no lock, so the threads interleave between any two   *)
(* of the statements of ask that read or write self.chat_history.          *)
(***************************************************************************)
MaxThreads == 2
Threads == 1..MaxThreads

\* The number of calls, all answered, the guest has made before the threads start.
PriorCalls == {0, 24}

\* What each thread asks and what the completion call answers it.
query_of(t) == <<"q", Digit[t + 1]>>
answer_of(t) == <<"a", Digit[t + 1]>>

\* The history of the calls made before.
prior_turns(n) ==
    [i \in 1..(2 * n) |-> IF i % 2 = 1 THEN Turn("user", query_of(0), 0)
                          ELSE Turn("assistant", answer_of(0), 0)]

\* A thread that has not yet entered ask.
Entering ==
    [pc |-> "begin", chat_history_key |-> NoneVal, final_answer |-> NoneVal,
     returned |-> NoneVal, kept |-> <<>>]

InitConc ==
    /\ sheet = "alice_checked_in"
    /\ now = 0
    /\ refreshes = 1
    /\ loaded_by = [n \in 1..5 |-> 1]
    /\ calls = <<>>
    /\ last = NoCall
    /\ fn = <<>>
    /\ thr = [t \in Threads |-> Entering]
    /\ \E n \in PriorCalls :
           LET bot == __init__(0, "none")
               key == _get_chat_history_key(_find_client_row(bot, Guest), Guest)
           IN  /\ appends = (IF n = 0 THEN <<>> ELSE key :> prior_turns(n))
               /\ Becomes0([bot EXCEPT !.chat_history =
                                IF n = 0 THEN <<>> ELSE key :> prior_turns(n)])

\* Thread t moves to the statement at, with its locals changed as given.
goes(t, at, locals) == thr' = [thr EXCEPT ![t] = [locals EXCEPT !.pc = at]]

\* Lines 239-253: the refresh, the client row and the history key.
Begin(t) ==
    /\ thr[t].pc = "begin"
    /\ \E refreshed \in {_refresh_sheets(Self, 0)} :
           /\ Becomes(refreshed)
           /\ goes(t, "not_in", [thr[t] EXCEPT !.chat_history_key =
                      _get_chat_history_key(_find_client_row(refreshed, Guest), Guest)])
    /\ loaded_by' = loaded_after(0)
    /\ refreshes' = refreshes + 1
    /\ UNCHANGED <<env_vars, calls, last, appends, fn>>

\* Line 256: if chat_history_key not in self.chat_history
TestKey(t) ==
    /\ thr[t].pc = "not_in"
    /\ goes(t, IF thr[t].chat_history_key \in DOMAIN chat_history THEN "append_user"
               ELSE "create", thr[t])
    /\ UNCHANGED <<bot_vars, env_vars, log_vars, fn>>

\* Line 257: self.chat_history[chat_history_key] = []
CreateList(t) ==
    /\ thr[t].pc = "create"
    /\ chat_history' = (thr[t].chat_history_key :> <<>>) @@ chat_history
    /\ goes(t, "append_user", thr[t])
    /\ UNCHANGED <<qna_rows, dos_donts, campaigns, menu, client_rows, use_sheet, retriever,
                   env_vars, log_vars, fn>>

\* The list under key gets the turn, and the history variable records it.
list_append(key, turn) ==
    /\ chat_history' = [chat_history EXCEPT ![key] = Append(@, turn)]
    /\ appends' = logged(appends, key, turn)
    /\ UNCHANGED <<qna_rows, dos_donts, campaigns, menu, client_rows, use_sheet, retriever,
                   env_vars, loaded_by, refreshes, calls, last, fn>>

\* Lines 261-265: the user turn is appended.
AppendUser(t) ==
    /\ thr[t].pc = "append_user"
    /\ list_append(thr[t].chat_history_key, Turn("user", query_of(t), now))
    /\ goes(t, "invoke", thr[t])

\* Lines 267-321: the status, the documents and the prompt are computed, which
\* writes nothing, and the completion call answers or raises; when it raises
\* the except branch returns the apology.
Invoke(t) ==
    /\ thr[t].pc = "invoke"
    /\ \E completion \in {CompletionRaises, answer_of(t)} :
           IF completion = CompletionRaises
           THEN goes(t, "done", [thr[t] EXCEPT !.returned = Apology])
           ELSE goes(t, "append_assistant", [thr[t] EXCEPT !.final_answer = strip(completion)])
    /\ UNCHANGED <<bot_vars, env_vars, log_vars, fn>>

\* Lines 324-328: the assistant turn is appended.
AppendAssistant(t) ==
    /\ thr[t].pc = "append_assistant"
    /\ list_append(thr[t].chat_history_key, Turn("assistant", thr[t].final_answer, now))
    /\ goes(t, "len", thr[t])

\* Line 331: if len(self.chat_history[chat_history_key]) > 50
TestLength(t) ==
    /\ thr[t].pc = "len"
    /\ IF Len(chat_history[thr[t].chat_history_key]) > KeepLast
       THEN goes(t, "slice", thr[t])
       ELSE goes(t, "done", [thr[t] EXCEPT !.returned = thr[t].final_answer])
    /\ UNCHANGED <<bot_vars, env_vars, log_vars, fn>>

\* Line 332, right-hand side: self.chat_history[chat_history_key][-50:]
Slice(t) ==
    /\ thr[t].pc = "slice"
    /\ goes(t, "store", [thr[t] EXCEPT
                            !.kept = last_n(chat_history[thr[t].chat_history_key], KeepLast)])
    /\ UNCHANGED <<bot_vars, env_vars, log_vars, fn>>

\* Line 332, the assignment: self.chat_history[chat_history_key] = ...
Store(t) ==
    /\ thr[t].pc = "store"
    /\ chat_history' = [chat_history EXCEPT ![thr[t].chat_history_key] = thr[t].kept]
    /\ goes(t, "done", [thr[t] EXCEPT !.returned = thr[t].final_answer])
    /\ UNCHANGED <<qna_rows, dos_donts, campaigns, menu, client_rows, use_sheet, retriever,
                   env_vars, log_vars, fn>>

NextConc ==
    \E t \in Threads :
        \/ Begin(t)
        \/ TestKey(t)
        \/ CreateList(t)
        \/ AppendUser(t)
        \/ Invoke(t)
        \/ AppendAssistant(t)
        \/ TestLength(t)
        \/ Slice(t)
        \/ Store(t)

SpecConc == InitConc /\ [][NextConc]_vars

AllReturned == \A t \in Threads : thr[t].pc = "done"

\* C4: when ask calls for one key run concurrently, no appended turn is lost:
\* once the calls have returned, every turn appended is in the key's history
\* unless it is one of the oldest turns beyond the last 50.
C4_NoAppendedTurnLost ==
    AllReturned =>
        \A key \in DOMAIN appends :
            \A i \in DOMAIN appends[key] :
                i > Len(appends[key]) - KeepLast =>
                    appends[key][i] \in Range(chat_history[key])

\* Two concurrent calls have both returned an answer.
C4_BothAnswered ==
    /\ AllReturned
    /\ \A t \in Threads : thr[t].returned = thr[t].final_answer

(***************************************************************************)
(* SpecTurn: one turn of a freshly constructed bot, for every identifier   *)
(* of a wider set and every failure the outside world can produce.         *)
(***************************************************************************)
Stranger == <<"z", "e", "d">>

TurnIdentifiers ==
    Identifiers \cup {Stranger, <<" ">>, <<"B", "o">>, <<"b", "2">>, <<" ", "C", "1", " ">>}

AskOnce ==
    /\ last.n = 0
    /\ \E query \in Queries, user_identifier \in TurnIdentifiers, fail_at \in 0..5,
          retrieval \in {"ok", "raises"}, vector \in {"raises", "empty", "documents"},
          completion \in Completions :
           /\ Distinguishable(fail_at, retrieval, vector)
           /\ Ask(query, user_identifier, fail_at, retrieval, vector, completion)

NextTurn == AskOnce

SpecTurn == Init /\ [][NextTurn]_vars

\* The normalized identifier iid equals the row's email, client id, booking id
\* or name.
names_row(row, iid) ==
    \E k \in {"Email", "Client Id", "Booking Id", "Name"} : cell(row, k) = iid

\* The caller gave no identifier, or one that no row of the client sheet the
\* turn read is known by.
Unknown(user_identifier) ==
    \/ ~Truthy(user_identifier)
    \/ \A i \in DOMAIN client_rows : ~names_row(client_rows[i], lower(strip(user_identifier)))

\* C11: a turn with no identifier, or with an identifier that matches no client
\* row, has is_booked and is_verified false, and the prompt it sends to the
\* completion has the required-booking framing and no menu or campaign block.
C11_UnknownCallerIsRestricted ==
    (last.n > 0 /\ last.key # NoneVal /\ Unknown(last.user_identifier)) =>
        /\ ~last.is_booked
        /\ ~last.is_verified
        /\ last.prompt # NoneVal =>
               /\ has_required_framing(last.prompt)
               /\ ~has_menu_block(last.prompt)
               /\ ~has_campaigns_block(last.prompt)

\* A caller no row matches has asked while the sheet held booked guests, a menu
\* and campaigns, and a prompt went to the completion.
C11_Witness ==
    /\ last.n > 0
    /\ last.user_identifier = Stranger
    /\ Unknown(last.user_identifier)
    /\ \E i \in DOMAIN client_rows : _is_user_booked(client_rows[i])
    /\ menu.set /\ menu.rows # <<>> /\ campaigns # <<>>
    /\ last.prompt # NoneVal
    /\ last.returned # Apology

\* The replies the completion call can give, as ask returns them.
Replies == {strip(c) : c \in Completions \ {CompletionRaises}}

\* C15: ask never raises: whatever the input and whichever of the sheet fetch,
\* the retrieval, the prompt building and the completion call fails, it returns
\* a string, and that string is the fixed apology whenever the failure
\* prevented a completion reply.
C15_ReturnsReplyOrApology ==
    last.n > 0 =>
        /\ last.returned # Raised
        /\ last.returned # NoneVal
        /\ IF last.raised_in = "" THEN last.returned \in Replies ELSE last.returned = Apology

\* A turn in which the fallback retriever returned documents that the join of
\* line 302 cannot read.
C15_Witness ==
    /\ last.n > 0
    /\ last.raised_in = "page_content"
    /\ last.returned = Apology

\* A turn whose sheet fetch failed and whose retrieval raised, and which still
\* returned the completion's reply.
C15_FailuresSurvived ==
    /\ last.n > 0
    /\ last.refresh_failed
    /\ last.raised_in = ""
    /\ last.returned \in Replies

\* The prompt was composed with no hotel data.
has_empty_hotel_data(p) == contains(p, <<"Hotel Data:\n", "\n\n">>)

\* C16: a turn whose sheet fetch fails runs with an empty corpus and no guest
\* record, not with rows kept from an earlier fetch: is_booked and is_verified
\* are false and the prompt sent to the completion has no hotel data.
C16_FailedFetchMeansNoData ==
    (last.n > 0 /\ last.refresh_failed) =>
        /\ ~last.is_booked
        /\ ~last.is_verified
        /\ last.prompt # NoneVal => has_empty_hotel_data(last.prompt)

\* A turn whose sheet fetch failed has run for a guest whose row was kept from
\* the fetch before.
C16_Witness ==
    /\ last.n > 0
    /\ last.refresh_failed
    /\ last.user_identifier = Guest
    /\ \E i \in DOMAIN client_rows : names_row(client_rows[i], lower(strip(Guest)))

\* C17: with an empty QnA corpus a turn in sheet mode still composes a prompt
\* with empty hotel data, invokes the completion and returns its reply, not
\* the apology.
C17_EmptyCorpusStillAnswers ==
    (last.n > 0 /\ use_sheet /\ ~last.refresh_failed /\ qna_rows = <<>>) =>
        /\ last.prompt # NoneVal
        /\ has_empty_hotel_data(last.prompt)
        /\ last.raised_in \in {"", "llm.invoke"}
        /\ last.raised_in = "" => last.returned \in Replies

\* A turn has run in sheet mode on an empty QnA tab.
C17_Witness ==
    /\ last.n > 0
    /\ use_sheet
    /\ ~last.refresh_failed
    /\ qna_rows = <<>>
    /\ _retrieve_from_sheets(Self, last.query, retriever_k) = <<>>

(***************************************************************************)
(* SpecFind: _find_client_row applied to every sheet of at most two of the *)
(* rows below and every identifier of FindIdentifiers.                     *)
(***************************************************************************)
\* A guest whose row was entered with Alice's address as the name.
Proxy ==
    Row(("Email" :> <<"p", "@", "x">>) @@ ("Client Id" :> <<"C", "3">>) @@ ("Name" :> AliceEmail)
        @@ ("Workfow Stage" :> <<"p", "e", "n", "d", "i", "n", "g">>))
\* A guest whose email is another guest's client id.
Carol ==
    Row(("Email" :> <<"c", "2">>) @@ ("Client Id" :> <<"C", "4">>) @@ ("Name" :> <<"C", "a">>))

FindRows == {AliceConfirmed, BobNoEmail, Proxy, Carol}
FindSheets == {<<>>} \cup {<<r>> : r \in FindRows} \cup {<<r, q>> : r \in FindRows, q \in FindRows}
FindIdentifiers == {<<"A", "@", "X">>, <<" ", "c", "2">>, <<"C", "3">>, <<" ">>, Stranger}

InitFind ==
    /\ NotRunning
    /\ fn \in [rows : FindSheets, identifier : FindIdentifiers, out : {{}}]

FindRow ==
    /\ fn.out = {}
    /\ fn' = [fn EXCEPT !.out = {_find_client_row([client_rows |-> fn.rows], fn.identifier)}]
    /\ UNCHANGED <<bot_vars, env_vars, log_vars, thr>>

NextFind == FindRow

SpecFind == InitFind /\ [][NextFind]_vars

\* C12: whenever some row's email equals the normalized identifier, the row
\* _find_client_row returns is one whose email equals it, even if an earlier
\* row matches by client id, booking id or name.
C12_EmailMatchWins ==
    \A row \in fn.out :
        (\E i \in DOMAIN fn.rows : cell(fn.rows[i], "Email") = lower(strip(fn.identifier)))
            => (row # NoRow /\ cell(row, "Email") = lower(strip(fn.identifier)))

\* A row was returned for an identifier that is the email of the second row
\* and the name or client id of the first.
C12_EarlierRowMatchesOtherwise ==
    /\ fn.out # {}
    /\ Len(fn.rows) = 2
    /\ cell(fn.rows[2], "Email") = lower(strip(fn.identifier))
    /\ cell(fn.rows[1], "Email") # lower(strip(fn.identifier))
    /\ names_row(fn.rows[1], lower(strip(fn.identifier)))

(***************************************************************************)
(* SpecKey: _get_chat_history_key applied to every row of KeyRows (and to  *)
(* no row), every identifier of KeyIdentifiers and every time of KeyTimes. *)
(***************************************************************************)
KeyTimes == {0, 7, 12}
KeyIdentifiers == {NoneVal, <<>>, Stranger, <<" ">>}
KeyRows ==
    {NoRow} \cup
    {Row(("Email" :> e) @@ ("Client Id" :> c) @@ ("Name" :> n)) :
        e \in {Absent, NoneVal, <<>>, AliceEmail, <<" ">>},
        c \in {Absent, NoneVal, <<>>, <<"C", "1">>},
        n \in {Absent, <<"A", "l">>}}

InitKey ==
    /\ chat_history = <<>>
    /\ qna_rows = <<>>
    /\ dos_donts = <<>>
    /\ campaigns = <<>>
    /\ menu = Unset
    /\ client_rows = <<>>
    /\ use_sheet = FALSE
    /\ retriever = "unset"
    /\ sheet = ""
    /\ now \in KeyTimes
    /\ loaded_by = <<>>
    /\ refreshes = 0
    /\ calls = <<>>
    /\ last = <<>>
    /\ thr = <<>>
    /\ appends = <<>>
    /\ fn \in [client_row : KeyRows, user_identifier : KeyIdentifiers, out : {{}}]

GetKey ==
    /\ fn.out = {}
    /\ fn' = [fn EXCEPT !.out = {_get_chat_history_key(fn.client_row, fn.user_identifier)}]
    /\ UNCHANGED <<bot_vars, env_vars, log_vars, thr>>

NextKey == GetKey

SpecKey == InitKey /\ [][NextKey]_vars

\* The row is there and holds something other than None or "" in column k.
holds(row, k) == row # NoRow /\ k \in DOMAIN row /\ row[k] \notin {Absent, NoneVal, <<>>}

\* The times of KeyTimes in decimal.
Decimal == (0 :> <<"0">>) @@ (7 :> <<"7">>) @@ (12 :> <<"1", "2">>)

\* C13: the history key is the row's Email if it has one; otherwise the row's
\* Client Id if it has one; otherwise 'user_' and the caller's identifier if
\* one was given; otherwise 'session_' and the time in whole seconds.
C13_KeyByPriority ==
    \A key \in fn.out :
        key = IF holds(fn.client_row, "Email") THEN fn.client_row["Email"]
              ELSE IF holds(fn.client_row, "Client Id") THEN fn.client_row["Client Id"]
              ELSE IF fn.user_identifier \notin {NoneVal, <<>>}
                   THEN <<"u", "s", "e", "r", "_">> \o fn.user_identifier
              ELSE <<"s", "e", "s", "s", "i", "o", "n", "_">> \o Decimal[now]

\* The key was computed for a row that has an Email and a Client Id, with an
\* identifier given as well.
C13_Witness ==
    /\ fn.out # {}
    /\ holds(fn.client_row, "Email") /\ holds(fn.client_row, "Client Id")
    /\ fn.user_identifier = Stranger

\* Each of the lower-priority sources is used by some evaluation.
C13_SessionKeyReached ==
    /\ now = 12
    /\ fn.out = {<<"s", "e", "s", "s", "i", "o", "n", "_", "1", "2">>}

(***************************************************************************)
(* SpecRetrieve: _retrieve_from_sheets applied to every QnA tab of at most *)
(* MaxRows different rows of RetrieveRows, every query of RetrieveQueries  *)
(* and every k of RetrieveKs.                                              *)
(***************************************************************************)
MaxRows == 3

\* The pool row once more, told apart by a column _row_to_doc_text does not read.
QnaPoolAgain == QnaPool @@ ("topic" :> Spa)
\* Rows without text.
QnaEmpty == ("question" :> <<>>) @@ ("answer" :> NoneVal)
QnaBlank == ("question" :> NoneVal) @@ ("text" :> <<>>)

RetrieveRows == {QnaPool, QnaPoolAgain, QnaTea, QnaEmpty, QnaBlank}
RetrieveQueries == {<<"P", "o", "o", "l", "?">>, <<"t", "e", "a", " ", "a", "t">>}
RetrieveKs == {1, 2, 5}

\* The tabs of n different rows.
RetrieveTabs ==
    {t \in UNION {[1..n -> RetrieveRows] : n \in 0..MaxRows} :
        \A i, j \in DOMAIN t : i # j => t[i] # t[j]}

InitRetrieve ==
    /\ NotRunning
    /\ fn \in [rows : RetrieveTabs, query : RetrieveQueries, k : RetrieveKs, out : {{}}]

Retrieve ==
    /\ fn.out = {}
    /\ fn' = [fn EXCEPT !.out = {_retrieve_from_sheets([qna_rows |-> fn.rows], fn.query, fn.k)}]
    /\ UNCHANGED <<bot_vars, env_vars, log_vars, thr>>

NextRetrieve == Retrieve

SpecRetrieve == InitRetrieve /\ [][NextRetrieve]_vars

\* The number of the row of the tab that a passage was made from.
row_of(passage) == CHOOSE j \in DOMAIN fn.rows : fn.rows[j] = passage.metadata

\* Fractions with positive denominators compared.
frac_less(x, y) == x[1] * y[2] < y[1] * x[2]
frac_equal(x, y) == x[1] * y[2] = y[1] * x[2]

\* C18: _retrieve_from_sheets returns min(k, number of rows) passages, each
\* made from a row of its own with that row's score, in order of non-increasing
\* score, passages of equal score in the order of their rows, and no row left
\* out has a strictly higher score than a passage returned.
C18_TopKStableDescending ==
    \A out \in fn.out :
        /\ Len(out) = IF fn.k < Len(fn.rows) THEN fn.k ELSE Len(fn.rows)
        /\ \A i \in DOMAIN out :
               /\ out[i].metadata \in Range(fn.rows)
               /\ out[i].page_content = _row_to_doc_text(out[i].metadata)
               /\ out[i].score = _score_doc(out[i].page_content, fn.query)
        /\ \A i, j \in DOMAIN out :
               i < j => /\ out[i].metadata # out[j].metadata
                        /\ ~frac_less(out[i].score, out[j].score)
                        /\ frac_equal(out[i].score, out[j].score) => row_of(out[i]) < row_of(out[j])
        /\ \A r \in DOMAIN fn.rows :
               (\A i \in DOMAIN out : out[i].metadata # fn.rows[r]) =>
                   \A i \in DOMAIN out :
                       ~frac_less(out[i].score,
                                  _score_doc(_row_to_doc_text(fn.rows[r]), fn.query))

\* Passages were returned from a tab of more rows than k, two of the rows
\* scoring the same and one scoring higher than another.
C18_Witness ==
    /\ fn.out # {}
    /\ Len(fn.rows) > fn.k
    /\ fn.k > 1
    /\ \E out \in fn.out :
           /\ \E i, j \in DOMAIN out :
                  i < j /\ frac_equal(out[i].score, out[j].score) /\ out[i].score[1] > 0
           /\ \E i \in DOMAIN out, r \in DOMAIN fn.rows :
                  frac_less(_score_doc(_row_to_doc_text(fn.rows[r]), fn.query), out[i].score)

(***************************************************************************)
(* SpecScore: _score_doc applied to every pair of the texts of ScoreTexts. *)
(***************************************************************************)
ScoreTexts ==
    {<<>>, <<"?">>, <<" ">>, <<"-", " ", "!">>,
     <<"P", "o", "o", "l", "?">>, <<"p", "o", "o", "l", " ", "y", "e", "s">>,
     <<"t", "e", "a", " ", "a", "t", " ", "5">>, <<"a", " ", "b">>, <<"b", " ", "a", " ", "a">>,
     _row_to_doc_text(QnaPool)}

InitScore ==
    /\ NotRunning
    /\ fn \in [doc_text : ScoreTexts, query : ScoreTexts, out : {{}}]

Score ==
    /\ fn.out = {}
    /\ fn' = [fn EXCEPT !.out = {_score_doc(fn.doc_text, fn.query)}]
    /\ UNCHANGED <<bot_vars, env_vars, log_vars, thr>>

NextScore == Score

SpecScore == InitScore /\ [][NextScore]_vars

\* The token set of a text: the words of its normalized form.
tokens(text) == Range(split(_normalize_text(text), <<>>, <<>>))

\* |intersection| / min(|query tokens|, |doc tokens|), and 0 when either set
\* is empty.
overlap_ratio(query, doc_text) ==
    IF tokens(query) = {} \/ tokens(doc_text) = {} THEN <<0, 1>>
    ELSE <<Cardinality(tokens(query) \cap tokens(doc_text)),
           Min(Cardinality(tokens(query)), Cardinality(tokens(doc_text)))>>

\* 0.65 * overlap + 0.35 * similarity, for fractions
weighted(overlap, similarity) ==
    <<65 * overlap[1] * similarity[2] + 35 * similarity[1] * overlap[2],
      100 * overlap[2] * similarity[2]>>

\* C19: _score_doc is 0.65 times the token overlap ratio plus 0.35 times the
\* sequence similarity of the normalized strings, the overlap ratio (and only
\* it) being 0 when a token set is empty; the score lies in [0, 1].
C19_WeightedSum ==
    \A score \in fn.out :
        /\ frac_equal(score,
                      weighted(overlap_ratio(fn.query, fn.doc_text),
                               ratio(_normalize_text(fn.query), _normalize_text(fn.doc_text))))
        /\ score[1] >= 0
        /\ score[1] <= score[2]

\* A query and a document without a letter or digit have been scored.
C19_BothWithoutTokens ==
    /\ fn.out # {}
    /\ tokens(fn.query) = {}
    /\ tokens(fn.doc_text) = {}

\* The score of two texts that share a word but are not the same.
C19_BothTermsCount ==
    /\ fn.out # {}
    /\ \E score \in fn.out : score[1] > 0 /\ score[1] < score[2]

(***************************************************************************)
(* SpecChat: the /chat handlers of main_new.py and main.py, run on every   *)
(* request of ChatRequests with every set of side-effect sinks failing.    *)
(* A sink that fails raises an exception where the handler calls it.       *)
(***************************************************************************)
Sinks ==
    {"push_ticket_to_sheet", "create_addon_checkout_session", "log_chat", "push_row_to_sheet",
     "broker.broadcast", "get_due_items_details", "create_pending_checkout_session", "db.commit"}

AddonIntents == {"book_addon_spa", "book_addon_beverage", "book_addon_food"}
Intents == {"general", "book_addon_spa", "checkout_balance", "booking_request"}

\* The exception leaves the handler: the client gets an error, not a ChatResp.
HandlerRaised == [raised |-> TRUE]

ChatActions ==
    [show_booking_form |-> FALSE, addons |-> "none", payment_link |-> "none",
     pending_balance |-> "none"]

ChatResp(reply, intent, actions) ==
    [raised |-> FALSE, reply |-> reply, intent |-> intent, actions |-> actions]

\* The add-on branch of both handlers: the link, or None when its creation fails.
with_addons(actions, intent, fails) ==
    IF intent \in AddonIntents
    THEN [actions EXCEPT !.addons = "matches",
                         !.payment_link = IF "create_addon_checkout_session" \in fails
                                          THEN "none" ELSE "checkout_url"]
    ELSE actions

\* chat of main_new.py.  req: whether the message asks for a ticket, whether it
\* holds a booking keyword, the intent classify_intent gives it and the reply
\* bot.ask returned; fails: the sinks that fail during this request.
chat_new(req, fails) ==
    LET \* lines 438-464: the push and its broadcast are inside try/except
        booking == [ChatActions EXCEPT !.show_booking_form = req.booking_words]
        actions == with_addons(booking, req.intent, fails)
    IN  \* line 485: log_chat is called outside any try
        IF "log_chat" \in fails THEN HandlerRaised
        ELSE \* lines 488-515: the guest log and the broadcasts are guarded
             ChatResp(req.bot_reply_text, req.intent, actions)

\* chat of main.py.  req.due: whether the guest has a balance due.
chat_old(req, fails) ==
    LET addons == with_addons(ChatActions, req.intent, fails)
        booking == [addons EXCEPT !.show_booking_form =
                                      req.intent \in {"payment_request", "booking_request"}]
        actions == IF req.intent = "checkout_balance" /\ req.due
                   THEN [booking EXCEPT !.pending_balance =
                                            IF "create_pending_checkout_session" \in fails
                                            THEN "amount without link" ELSE "amount and link"]
                   ELSE booking
    IN  \* line 398: the balance lookup is called outside any try
        IF req.intent = "checkout_balance" /\ "get_due_items_details" \in fails THEN HandlerRaised
        \* line 408: log_chat is called outside any try
        ELSE IF "log_chat" \in fails THEN HandlerRaised
        \* lines 411-455: the persistence and the broadcast are guarded
        ELSE ChatResp(req.bot_reply_text, req.intent, actions)

ChatRequests ==
    [is_ticket : BOOLEAN, booking_words : BOOLEAN, due : BOOLEAN, intent : Intents,
     bot_reply_text : {Apology, <<"o", "k">>}]

InitChat ==
    /\ NotRunning
    /\ fn \in [req : ChatRequests, fails : SUBSET Sinks, handler : {"none"}, out : {{}}]

ChatNew ==
    /\ fn.out = {}
    /\ fn' = [fn EXCEPT !.handler = "main_new", !.out = {chat_new(fn.req, fn.fails)}]
    /\ UNCHANGED <<bot_vars, env_vars, log_vars, thr>>

ChatOld ==
    /\ fn.out = {}
    /\ fn' = [fn EXCEPT !.handler = "main", !.out = {chat_old(fn.req, fn.fails)}]
    /\ UNCHANGED <<bot_vars, env_vars, log_vars, thr>>

NextChat == ChatNew \/ ChatOld

SpecChat == InitChat /\ [][NextChat]_vars

\* C20: in the /chat handlers the failure of any side-effect sink never blocks
\* or alters the reply: the handler returns a response whose reply text is the
\* bot's answer.
C20_SinkFailureKeepsReply ==
    \A resp \in fn.out : ~resp.raised /\ resp.reply = fn.req.bot_reply_text

\* A request during which a guarded sink failed was answered with the bot's reply.
C20_GuardedSinkFailed ==
    /\ fn.handler = "main_new"
    /\ fn.fails = {"push_ticket_to_sheet", "push_row_to_sheet", "broker.broadcast"}
    /\ fn.req.is_ticket
    /\ \E resp \in fn.out : ~resp.raised /\ resp.reply = fn.req.bot_reply_text

\* C21: the /chat result has show_booking_form true if and only if the message
\* holds one of the booking keywords or the intent is booking_request or
\* payment_request, in both handlers.
C21_BookingFormTrigger ==
    \A resp \in fn.out :
        ~resp.raised =>
            (resp.actions.show_booking_form
                <=> (fn.req.booking_words \/ fn.req.intent \in {"booking_request", "payment_request"}))

\* A request classified as a booking request, without a booking keyword in
\* its message, was answered by the handler of main_new.py.
C21_IntentWithoutKeyword ==
    /\ fn.handler = "main_new"
    /\ fn.req.intent = "booking_request"
    /\ ~fn.req.booking_words
    /\ \E resp \in fn.out : ~resp.raised

(***************************************************************************)
(* SpecTicket: is_ticket_request of main_new.py applied to every message   *)
(* of TicketMessages, intent of TicketInputIntents and add-on match list.  *)
(***************************************************************************)
ticket_intents ==
    {"book_addon_spa", "book_addon_beverage", "book_addon_food", "request_service",
     "room_service_request", "maintenance_request", "order_addon"}

keywords ==
    {
     <<"c", "o", "f", "f", "e", "e">>, <<"t", "e", "a">>, <<"o", "r", "d", "e", "r">>,
     <<"b", "r", "i", "n", "g">>, <<"d", "e", "l", "i", "v", "e", "r">>,
     <<"r", "o", "o", "m", " ", "s", "e", "r", "v", "i", "c", "e">>, <<"f", "o", "o", "d">>,
     <<"m", "e", "a", "l">>, <<"s", "n", "a", "c", "k">>, <<"t", "o", "w", "e", "l">>,
     <<"c", "l", "e", "a", "n">>,
     <<"h", "o", "u", "s", "e", "k", "e", "e", "p", "i", "n", "g">>,
     <<"m", "a", "k", "e", "u", "p", " ", "r", "o", "o", "m">>,
     <<"t", "u", "r", "n", " ", "d", "o", "w", "n">>, <<"r", "e", "p", "a", "i", "r">>,
     <<"f", "i", "x">>, <<"a", "c">>, <<"w", "i", "f", "i">>, <<"t", "v">>,
     <<"l", "i", "g", "h", "t">>, <<"b", "r", "o", "k", "e", "n">>, <<"l", "e", "a", "k">>,
     <<"t", "o", "i", "l", "e", "t">>, <<"b", "a", "t", "h", "r", "o", "o", "m">>,
     <<"s", "h", "o", "w", "e", "r">>}

\* is_ticket_request without lower-casing the message.
mut_is_ticket_request(message, intent, addon_matches) ==
    IF ~Truthy(message) THEN FALSE
    ELSE IF intent \in ticket_intents THEN TRUE
    ELSE IF \E k \in keywords : contains(message, k) THEN TRUE
    ELSE IF Truthy(addon_matches) /\ Len(addon_matches) > 0 THEN TRUE
    ELSE FALSE

is_ticket_request(message, intent, addon_matches) ==
    IF ~Truthy(message) THEN FALSE
    ELSE LET lower_ == lower(message)
         IN  IF intent \in ticket_intents THEN TRUE
             ELSE IF \E k \in keywords : contains(lower_, k) THEN TRUE
             ELSE IF Truthy(addon_matches) /\ Len(addon_matches) > 0 THEN TRUE
             ELSE FALSE

TicketMessages ==
    {<<>>, <<"h", "e", "l", "l", "o">>, <<"T", "e", "a">>, <<"n", "o", " ", "W", "i", "F", "i", "!">>,
     <<"r", "o", "o", "m", " ", " ", "s", "e", "r", "v", "i", "c", "e">>, <<"b", "a", "c", "k">>,
     <<"t", " ", "v">>}
TicketInputIntents == {"general", "request_service", "book_addon_spa", "booking_request"}
AddonMatches == {NoneVal, <<>>, <<"Spa">>}

InitTicket ==
    /\ NotRunning
    /\ fn \in [message : TicketMessages, intent : TicketInputIntents,
               addon_matches : AddonMatches, out : {{}}]

IsTicketRequest ==
    /\ fn.out = {}
    /\ fn' = [fn EXCEPT !.out = {is_ticket_request(fn.message, fn.intent, fn.addon_matches)}]
    /\ UNCHANGED <<bot_vars, env_vars, log_vars, thr>>

NextTicket == IsTicketRequest

SpecTicket == InitTicket /\ [][NextTicket]_vars

\* The intent is a ticket intent, or the lower-cased message holds a service
\* keyword, or there are add-on matches.
TicketWorthy ==
    \/ fn.intent \in ticket_intents
    \/ \E k \in keywords : contains(lower(fn.message), k)
    \/ fn.addon_matches \notin {NoneVal, <<>>}

\* C22: is_ticket_request returns true if and only if the intent is a ticket
\* intent, or the lower-cased message contains a service keyword, or
\* addon_matches is non-empty, whatever the message text is.
C22_TicketIff ==
    \A result \in fn.out : result <=> TicketWorthy

\* C22 as amended: for a non-empty message is_ticket_request returns true if
\* and only if the intent is a ticket intent, or the lower-cased message
\* contains a service keyword, or addon_matches is non-empty; for an empty
\* message it returns false.
C22_TicketIffForNonEmptyMessage ==
    \A result \in fn.out : result <=> (fn.message # <<>> /\ TicketWorthy)

\* A message was judged that holds a keyword only once lower-cased, with no
\* ticket intent and no add-on match.
C22_Witness ==
    /\ fn.out = {TRUE}
    /\ fn.intent \notin ticket_intents
    /\ fn.addon_matches = <<>>
    /\ ~(\E k \in keywords : contains(fn.message, k))

\* An empty message with a ticket intent was judged.
C22_EmptyMessageWithIntent ==
    /\ fn.out # {}
    /\ fn.message = <<>>
    /\ fn.intent \in ticket_intents

(***************************************************************************)
(* SpecWhatsApp: the WhatsApp booking dialogue of twilio_webhook.py.       *)
(* fn.session_data is the module's session_data dictionary (a function     *)
(* from the numbers that have a session to their dictionaries), fn.last    *)
(* the request handled last.  The intent is whatever classify_intent       *)
(* returns for the message, and the payment gateway answers with a link,   *)
(* with nothing, or raises.                                                *)
(***************************************************************************)
ROOM_PRICES ==
    [Standard |-> 12500, Deluxe |-> 17000, Executive |-> 23000, Family |-> 27500, Suite |-> 34000]

ROOM_OPTIONS == <<"Standard", "Deluxe", "Executive", "Family", "Suite">>

ADDON_MAPPING_keys == {<<"s", "p", "a">>, <<"m", "a", "s", "s", "a", "g", "e">>, <<"m", "o", "c", "k", "t", "a", "i", "l">>, <<"j", "u", "i", "c", "e">>, <<"b", "r", "o", "w", "n", "i", "e">>, <<"c", "h", "e", "e", "s", "e">>}

DigitValue ==
    [c \in {"0", "1", "2", "3", "4", "5", "6", "7", "8", "9"} |->
        CASE c = "0" -> 0 [] c = "1" -> 1 [] c = "2" -> 2 [] c = "3" -> 3 [] c = "4" -> 4
          [] c = "5" -> 5 [] c = "6" -> 6 [] c = "7" -> 7 [] c = "8" -> 8 [] c = "9" -> 9]

\* str.isdigit(): at least one character and every character a digit.
isdigit(s) == s # <<>> /\ \A i \in 1..Len(s) : s[i] \in DOMAIN DigitValue

RECURSIVE digits_value(_)
digits_value(s) ==
    IF s = <<>> THEN 0 ELSE 10 * digits_value(SubSeq(s, 1, Len(s) - 1)) + DigitValue[s[Len(s)]]

\* int(s) raises ValueError unless s is an optional sign followed by digits.
int_parses(s) ==
    \/ isdigit(s)
    \/ Len(s) > 1 /\ s[1] \in {"+", "-"} /\ isdigit(Tail(s))

int(s) ==
    IF isdigit(s) THEN digits_value(s)
    ELSE IF s[1] = "-" THEN 0 - digits_value(Tail(s))
    ELSE digits_value(Tail(s))

\* d[k] = v on a dictionary.
set_item(d, k, v) == [x \in DOMAIN d \cup {k} |-> IF x = k THEN v ELSE d[x]]

\* d.get(k, default)
dict_get(d, k, default) == IF k \in DOMAIN d THEN d[k] ELSE default

NewSession == [stage |-> "identify"]

\* Step 0 (stage "identify"): the session after the reply.
identify_step(user_session, incoming_msg) ==
    IF contains(lower(incoming_msg), <<"g", "u", "e", "s", "t">>)
    THEN set_item(set_item(user_session, "user_type", "guest"), "stage", "start")
    ELSE IF contains(lower(incoming_msg), <<"n", "o", "n", "-", "g", "u", "e", "s", "t">>) \/ contains(lower(incoming_msg), <<"v", "i", "s", "i", "t", "o", "r">>)
    THEN set_item(set_item(user_session, "user_type", "non-guest"), "stage", "start")
    ELSE user_session

\* Step B without the test of the user type.
mut_detects_room_booking(intent, user_type) ==
    intent = "payment_request"

\* Step B: the condition that starts the room booking.
detects_room_booking(intent, user_type) ==
    intent = "payment_request" /\ user_type = "guest"

\* Step 1 (stage "room")
room_step(user_session, incoming_msg) ==
    IF isdigit(incoming_msg) /\ 1 <= int(incoming_msg) /\ int(incoming_msg) <= Len(ROOM_OPTIONS)
    THEN set_item(set_item(user_session, "room_type", ROOM_OPTIONS[int(incoming_msg)]),
                  "stage", "nights")
    ELSE user_session

\* Step 2 (stage "nights")
nights_step(user_session, incoming_msg) ==
    IF int_parses(incoming_msg) /\ int(incoming_msg) > 0
    THEN set_item(set_item(user_session, "nights", int(incoming_msg)), "stage", "payment")
    ELSE user_session

\* Step 3 with the price of one night.
mut_payment_step(user_session, incoming_msg) ==
    IF incoming_msg \in {<<"1">>, <<"2">>}
    THEN LET chosen == set_item(set_item(user_session, "payment",
                                         IF incoming_msg = <<"1">> THEN "Online" ELSE "Cash"),
                                "stage", "confirm")
         IN  set_item(chosen, "price", ROOM_PRICES[chosen.room_type])
    ELSE user_session

\* Step 3 (stage "payment")
payment_step(user_session, incoming_msg) ==
    IF incoming_msg \in {<<"1">>, <<"2">>}
    THEN LET chosen == set_item(set_item(user_session, "payment",
                                         IF incoming_msg = <<"1">> THEN "Online" ELSE "Cash"),
                                "stage", "confirm")
         IN  set_item(chosen, "price", ROOM_PRICES[chosen.room_type] * chosen.nights)
    ELSE user_session

\* The call of create_checkout_session made in step 4, with the user type
\* stored in the session at that moment.
checkout_call(user_number, user_session) ==
    [session_id |-> user_number, room_type |-> user_session.room_type,
     nights |-> user_session.nights, cash |-> (user_session.payment = "Cash"),
     user_type |-> dict_get(user_session, "user_type", "<absent>")]

\* whatsapp_reply: the sessions after the request and the calls of
\* create_checkout_session it made.  pay is what the payment gateway does
\* when it is called: "url", "none" or "raises".
whatsapp_reply(session_data, user_number, body, intent, pay) ==
    LET incoming_msg == strip(body)
        sessions     == IF user_number \in DOMAIN session_data THEN session_data
                        ELSE set_item(session_data, user_number, NewSession)
        user_session == sessions[user_number]
        stage        == user_session.stage
        user_type    == dict_get(user_session, "user_type", "guest")
        kept(s)      == [session_data |-> set_item(sessions, user_number, s), checkout |-> <<>>]
    IN  IF stage = "identify" THEN kept(identify_step(user_session, incoming_msg))
        ELSE IF detects_room_booking(intent, user_type)
        THEN kept(set_item(user_session, "stage", "room"))
        ELSE IF intent \in AddonIntents
        THEN IF (\E key \in ADDON_MAPPING_keys : contains(lower(incoming_msg), key)) /\ pay # "raises"
             THEN kept(NewSession)
             ELSE kept(user_session)
        ELSE IF stage = "room" THEN kept(room_step(user_session, incoming_msg))
        ELSE IF stage = "nights" THEN kept(nights_step(user_session, incoming_msg))
        ELSE IF stage = "payment" THEN kept(payment_step(user_session, incoming_msg))
        ELSE IF stage = "confirm" /\ lower(incoming_msg) = <<"y", "e", "s">>
        THEN [session_data |-> set_item(sessions, user_number,
                                        IF pay = "raises" THEN user_session ELSE NewSession),
              checkout |-> <<checkout_call(user_number, user_session)>>]
        ELSE kept(user_session)

Numbers == {"+91"}
Bodies ==
    {<<"g", "u", "e", "s", "t">>, <<"N", "o", "n", "-", "G", "u", "e", "s", "t">>, <<"n", "o", "n", "-", "g", "u", "e", "s", "t">>, <<"a", " ", "v", "i", "s", "i", "t", "o", "r">>, <<"h", "e", "l", "l", "o">>, <<"s", "p", "a">>, <<"1">>, <<"2">>, <<"6">>, <<"0">>, <<"-", "2">>,
     <<" ", "2", " ">>, <<"y", "e", "s">>, <<"Y", "E", "S">>}
WhatsAppIntents == {"general", "payment_request", "book_addon_spa"}
Gateway == {"url", "none", "raises"}

InitWhatsApp ==
    /\ NotRunning
    /\ fn = [session_data |-> <<>>, last |-> <<>>]

WhatsAppReply ==
    \E user_number \in Numbers, body \in Bodies, intent \in WhatsAppIntents, pay \in Gateway :
        \E out \in {whatsapp_reply(fn.session_data, user_number, body, intent, pay)} :
            /\ fn' = [session_data |-> out.session_data,
                      last |-> <<[user_number |-> user_number, body |-> body, intent |-> intent,
                                  stage |-> dict_get(dict_get(fn.session_data, user_number, NewSession),
                                                     "stage", "identify"),
                                  checkout |-> out.checkout]>>]
            /\ UNCHANGED <<bot_vars, env_vars, log_vars, thr>>

NextWhatsApp == WhatsAppReply

SpecWhatsApp == InitWhatsApp /\ [][NextWhatsApp]_vars

StageOrder ==
    {<<"identify", "start">>, <<"start", "room">>, <<"room", "nights">>, <<"nights", "payment">>,
     <<"payment", "confirm">>, <<"confirm", "identify">>}

\* The validation the booking flow applies to a message in a stage.
passes_validation(stage, msg) ==
    CASE stage = "room" -> isdigit(msg) /\ int(msg) \in 1..Len(ROOM_OPTIONS)
      [] stage = "nights" -> int_parses(msg) /\ int(msg) > 0
      [] stage = "payment" -> msg \in {<<"1">>, <<"2">>}
      [] stage = "confirm" -> lower(msg) = <<"y", "e", "s">>
      [] OTHER -> TRUE

\* C23: the stage of a session moves only along identify, start, room,
\* nights, payment, confirm and back to identify; a step out of room, nights,
\* payment or confirm is taken only by a message that passes the stage's
\* validation, and a message that fails it leaves the session unchanged,
\* whatever its intent.
C23_StageOrder ==
    [][\A n \in DOMAIN fn.session_data :
          LET before == fn.session_data[n]
              after  == fn'.session_data[n]
              msg    == strip(fn'.last[1].body)
          IN  /\ before.stage # after.stage => <<before.stage, after.stage>> \in StageOrder
              /\ (fn'.last[1].user_number = n /\ ~passes_validation(before.stage, msg))
                     => after = before]_vars

\* In stage nights a message that is no number, classified as a payment
\* request, has been handled and the session is in stage room.
C23_BackToRoom ==
    /\ fn.last # <<>>
    /\ fn.last[1].stage = "nights"
    /\ ~passes_validation("nights", strip(fn.last[1].body))
    /\ fn.session_data[fn.last[1].user_number].stage = "room"

\* C25: in stage identify a reply of 'non-guest' sets user_type to
\* 'non-guest' and a reply of 'guest' sets it to 'guest'; the stage becomes
\* 'start' in both cases.
C25_IdentifyReply ==
    fn.last # <<>> /\ fn.last[1].stage = "identify" =>
        LET reply   == lower(strip(fn.last[1].body))
            session == fn.session_data[fn.last[1].user_number]
        IN  /\ reply = <<"n", "o", "n", "-", "g", "u", "e", "s", "t">> =>
                session.stage = "start" /\ session.user_type = "non-guest"
            /\ reply = <<"g", "u", "e", "s", "t">> =>
                session.stage = "start" /\ session.user_type = "guest"

\* A reply of 'non-guest' has been handled in stage identify.
C25_NonGuestReplied ==
    /\ fn.last # <<>>
    /\ fn.last[1].stage = "identify"
    /\ lower(strip(fn.last[1].body)) = <<"n", "o", "n", "-", "g", "u", "e", "s", "t">>

\* C26: a session in stage confirm has a room_type among the room options,
\* a whole number of nights above 0, a payment of Online or Cash and the
\* price ROOM_PRICES[room_type] * nights, so the confirmation never misses
\* a field.
C26_ConfirmHasFields ==
    \A n \in DOMAIN fn.session_data :
        LET session == fn.session_data[n]
        IN  session.stage = "confirm" =>
                /\ {"room_type", "nights", "payment", "price"} \subseteq DOMAIN session
                /\ \E i \in 1..Len(ROOM_OPTIONS) : session.room_type = ROOM_OPTIONS[i]
                /\ session.nights \in Nat \ {0}
                /\ session.payment \in {"Online", "Cash"}
                /\ session.price = ROOM_PRICES[session.room_type] * session.nights

\* A booking of more than one night reached stage confirm after the room
\* had been chosen a second time.
C26_Witness ==
    \E n \in DOMAIN fn.session_data :
        /\ fn.session_data[n].stage = "confirm"
        /\ fn.session_data[n].nights > 1
        /\ fn.session_data[n].payment = "Cash"

\* C27: create_checkout_session is called only for a session whose
\* user_type is 'guest', and a session marked 'non-guest' is never in stage
\* room, nights, payment or confirm.
C27_GuestsOnlyBook ==
    /\ \A n \in DOMAIN fn.session_data :
           LET session == fn.session_data[n]
           IN  session.stage \in {"room", "nights", "payment", "confirm"} =>
                   dict_get(session, "user_type", "<absent>") = "guest"
    /\ fn.last # <<>> =>
           \A i \in 1..Len(fn.last[1].checkout) : fn.last[1].checkout[i].user_type = "guest"

\* A visitor asked to pay in stage start and the session stayed there.
C27_Witness ==
    /\ fn.last # <<>>
    /\ fn.last[1].stage = "start"
    /\ fn.last[1].intent = "payment_request"
    /\ fn.session_data[fn.last[1].user_number].user_type = "non-guest"
    /\ fn.session_data[fn.last[1].user_number].stage = "start"

(***************************************************************************)
(* SpecSse: the EventBroker and the /events generator of main_new.py (the  *)
(* same code is in main.py).  fn.connections is broker.connections, with   *)
(* each queue named by its subscriber; fn.queue[s] is the content of the   *)
(* queue, fn.pc[s] the position of the subscriber's event_generator, and   *)
(* fn.gone[s] says that the client has disconnected.  The server may       *)
(* cancel the generator of a client that is gone, or leave it alone.       *)
(***************************************************************************)
MaxSubscribers == 2
MaxQueued == 2
Subscribers == 1..MaxSubscribers

\* self.connections.remove(q) when q is in the list.
removed(connections, q) == SelectSeq(connections, LAMBDA c : c # q)

InitSse ==
    /\ NotRunning
    /\ fn = [connections |-> <<>>,
             queue |-> [s \in Subscribers |-> <<>>],
             pc |-> [s \in Subscribers |-> "idle"],
             gone |-> [s \in Subscribers |-> FALSE]]

SseStep(next) ==
    /\ fn' = next
    /\ UNCHANGED <<bot_vars, env_vars, log_vars, thr>>

\* sse_events: q = await broker.connect(), and the response is returned.
Connect(s) ==
    /\ fn.pc[s] = "idle"
    /\ SseStep([fn EXCEPT !.connections = Append(@, s), !.pc[s] = "started"])

\* event_generator: await q.put('connected')
PutConnected(s) ==
    /\ fn.pc[s] = "started"
    /\ SseStep([fn EXCEPT !.queue[s] = Append(@, "connected"), !.pc[s] = "loop"])

\* event_generator: if await request.is_disconnected(): break
IsDisconnected(s) ==
    /\ fn.pc[s] = "loop"
    /\ SseStep([fn EXCEPT !.pc[s] = IF fn.gone[s] THEN "finally" ELSE "get"])

\* event_generator: msg = await q.get(), which waits while the queue is empty.
QueueGet(s) ==
    /\ fn.pc[s] = "get"
    /\ fn.queue[s] # <<>>
    /\ SseStep([fn EXCEPT !.queue[s] = Tail(@), !.pc[s] = "yield"])

\* event_generator: yield the message; sending to a client that is gone
\* either goes unnoticed or ends the generator.
Yield(s) ==
    /\ fn.pc[s] = "yield"
    /\ \E to \in IF fn.gone[s] THEN {"loop", "finally"} ELSE {"loop"} :
           SseStep([fn EXCEPT !.pc[s] = to])

\* event_generator: finally: await broker.disconnect(q)
Disconnect(s) ==
    /\ fn.pc[s] = "finally"
    /\ SseStep([fn EXCEPT !.connections = removed(@, s), !.pc[s] = "done"])

\* The client closes the connection.
ClientGoes(s) ==
    /\ fn.pc[s] \notin {"idle", "done"}
    /\ ~fn.gone[s]
    /\ SseStep([fn EXCEPT !.gone[s] = TRUE])

\* The server cancels the generator of a client that is gone.
Cancelled(s) ==
    /\ fn.pc[s] \in {"started", "loop", "get", "yield"}
    /\ fn.gone[s]
    /\ SseStep([fn EXCEPT !.pc[s] = "finally"])

\* q in self.connections, for the queue of subscriber s.
in_connections(s) == \E i \in 1..Len(fn.connections) : fn.connections[i] = s

\* broker.broadcast: the message is put on every queue of a copy of the
\* list; put on an unbounded queue neither waits nor raises.  An event is
\* broadcast only while every queue of the list holds fewer than MaxQueued
\* messages.
Broadcast ==
    /\ \A s \in Subscribers : in_connections(s) => Len(fn.queue[s]) < MaxQueued
    /\ SseStep([fn EXCEPT !.queue = [s \in Subscribers |->
                                        IF in_connections(s)
                                        THEN Append(fn.queue[s], "event") ELSE fn.queue[s]]])

NextSse ==
    \/ \E s \in Subscribers :
           \/ Connect(s) \/ PutConnected(s) \/ IsDisconnected(s) \/ QueueGet(s) \/ Yield(s)
           \/ Disconnect(s) \/ ClientGoes(s) \/ Cancelled(s)
    \/ Broadcast

SpecSse == InitSse /\ [][NextSse]_vars

\* The event loop lets every task run that can take a step: each step of a
\* generator that is enabled is eventually taken.  Clients, broadcasts and
\* the server's cancellation are not obliged to happen.
SpecSseFair ==
    /\ SpecSse
    /\ \A s \in Subscribers :
           /\ WF_vars(PutConnected(s))
           /\ WF_vars(IsDisconnected(s))
           /\ WF_vars(QueueGet(s))
           /\ WF_vars(Yield(s))
           /\ WF_vars(Disconnect(s))

\* C28: once a subscriber's client has disconnected, its queue is eventually
\* removed from EventBroker.connections, even if no further event is
\* broadcast.
C28_QueueEventuallyRemoved ==
    \A s \in Subscribers : (fn.gone[s] /\ in_connections(s)) ~> ~in_connections(s)

\* A client is gone while its generator waits on its empty queue, which is
\* still in connections.
C28_GoneWhileWaiting ==
    \E s \in Subscribers :
        /\ fn.gone[s]
        /\ fn.pc[s] = "get"
        /\ fn.queue[s] = <<>>
        /\ in_connections(s)

(***************************************************************************)
(* SpecSignup: POST /auth/signup of auth_api.py for every answer of the    *)
(* sheet web app.  A JSON object is a function from its keys, an exception *)
(* a record with the field raised.                                         *)
(***************************************************************************)
NotJson == [json |-> "invalid", value |-> <<>>]
JsonList == [json |-> "list", value |-> <<>>]
JsonObject(d) == [json |-> "object", value |-> d]

\* The object with the keys that are given a value.
object_of(success, ok, status_code, message) ==
    [k \in {x \in {"success"} : success # "absent"} \cup {x \in {"ok"} : ok # "absent"}
           \cup {x \in {"status_code"} : status_code # 0} \cup {x \in {"message"} : message # ""} |->
        CASE k = "success" -> (success = "true")
          [] k = "ok" -> (ok = "true")
          [] k = "status_code" -> status_code
          [] k = "message" -> message]

SheetBodies ==
    {NotJson, JsonList}
        \cup {JsonObject(object_of(s, o, c, msg)) :
                 s \in {"absent", "true", "false"}, o \in {"absent", "true"},
                 c \in {0, 200, 500}, msg \in {"", "Sheet not found"}}

\* What requests.post meets: an exception of the transport, or a response.
SheetAnswers ==
    [raises : {TRUE}, status_code : {200}, body : {NotJson}]
        \cup [raises : {FALSE}, status_code : {200, 204, 500}, body : SheetBodies]

Exception(type, status_code, detail) ==
    [raised |-> type, status_code |-> status_code, detail |-> detail]

\* push_row_to_sheet: the value returned, or the exception raised.
push_row_to_sheet(configured, answer) ==
    IF ~configured THEN Exception("RuntimeError", 0, "GSHEET_WEBAPP_URL not configured in Config")
    ELSE IF answer.raises \/ answer.status_code >= 400
    THEN JsonObject([success |-> FALSE, message |-> "RequestException"])
    ELSE IF answer.body # NotJson THEN answer.body
    ELSE IF answer.status_code = 200 THEN JsonObject([success |-> TRUE, status_code |-> 200])
    ELSE JsonObject([success |-> FALSE, message |-> "Invalid JSON response"])

\* resp.get("success") or resp.get("ok") or resp.get("status_code") == 200
reports_success(resp) ==
    \/ dict_get(resp, "success", FALSE)
    \/ dict_get(resp, "ok", FALSE)
    \/ dict_get(resp, "status_code", 0) = 200

\* The try block of signup: the value returned, or the exception raised.
signup_body(configured, answer) ==
    LET resp == push_row_to_sheet(configured, answer)
    IN  IF "raised" \in DOMAIN resp THEN resp
        ELSE IF resp.json # "object" THEN Exception("AttributeError", 0, "no attribute 'get'")
        ELSE IF reports_success(resp.value) THEN [status_code |-> 200, detail |-> "Registration successful"]
        ELSE Exception("HTTPException", 400,
                       dict_get(resp.value, "message", "Unknown error during registration"))

\* signup: the status and the detail of the response.  Every exception of
\* the try block, the HTTPException with status 400 included, is caught by
\* 'except Exception' and raised again with status 500 and its text.
signup(configured, answer) ==
    LET result == signup_body(configured, answer)
    IN  IF "raised" \in DOMAIN result
        THEN [status_code |-> 500, detail |-> result.raised]
        ELSE result

InitSignup ==
    /\ NotRunning
    /\ fn \in [configured : BOOLEAN, answer : SheetAnswers, out : {{}}]

Signup ==
    /\ fn.out = {}
    /\ fn' = [fn EXCEPT !.out = {signup(fn.configured, fn.answer)}]
    /\ UNCHANGED <<bot_vars, env_vars, log_vars, thr>>

NextSignup == Signup

SpecSignup == InitSignup /\ [][NextSignup]_vars

\* The sheet push returned an object with none of success, ok and
\* status_code 200.
push_reports_failure ==
    /\ fn.configured
    /\ push_row_to_sheet(TRUE, fn.answer).json = "object"
    /\ ~reports_success(push_row_to_sheet(TRUE, fn.answer).value)

\* C29: when the sheet push reports failure, /auth/signup responds with
\* status 400 and the sheet's error message; status 500 is only the answer
\* to an unexpected exception.
C29_SheetFailureIs400 ==
    \A response \in fn.out :
        /\ push_reports_failure =>
               /\ response.status_code = 400
               /\ response.detail = dict_get(push_row_to_sheet(TRUE, fn.answer).value, "message",
                                             "Unknown error during registration")
        /\ response.status_code = 500 => ~push_reports_failure

\* The sheet answered with an object that says success false and carries a
\* message, and signup has responded.
C29_SheetSaidNo ==
    /\ fn.out # {}
    /\ push_reports_failure
    /\ ~fn.answer.raises
    /\ fn.answer.status_code = 200
    /\ fn.answer.body.json = "object"
    /\ "message" \in DOMAIN fn.answer.body.value

(***************************************************************************)
(* SpecGuests: ConciergeBot.ask of services/qa_agent.py, called directly   *)
(* with a user type and called by POST /chat of main.py.  A Python value   *)
(* that may be a bool, a string or None is a record that says which.       *)
(***************************************************************************)
PyBool(b) == [type |-> "bool", bool |-> b, str |-> ""]
PyStr(s) == [type |-> "str", bool |-> FALSE, str |-> s]
PyNone == [type |-> "None", bool |-> FALSE, str |-> ""]

restricted_services ==
    {<<"w", "a", "k", "e", "-", "u", "p", " ", "c", "a", "l", "l">>, <<"s", "p", "a">>, <<"g", "y", "m">>, <<"p", "o", "o", "l">>, <<"r", "o", "o", "m", " ", "s", "e", "r", "v", "i", "c", "e">>, <<"b", "o", "o", "k", " ", "a", " ", "r", "o", "o", "m">>, <<"b", "o", "o", "k", "i", "n", "g">>}

GuestsOnly == <<"We're sorry, this service is exclusive to *guests* at ILLORA RETREATS.">>
AskFailed == <<"We're sorry, there was an issue while assisting you.">>
HereToHelp == <<"I'm here to help with any questions about ILLORA RETREATS.">>

AskResult(reply, retriever_invoked, llm_invoked) ==
    [reply |-> reply, retriever_invoked |-> retriever_invoked, llm_invoked |-> llm_invoked]

\* ConciergeBot.ask of qa_agent.py.  fails is the step that raises
\* ("retriever", "prompt", "llm" or "none"), answer the content of the
\* completion.
qa_agent_ask(query, user_type, fails, answer) ==
    LET lower_query == lower(Or(query, <<>>))
    IN  IF user_type = PyStr("non-guest") /\ \E term \in restricted_services : contains(lower_query, term)
        THEN AskResult(GuestsOnly, FALSE, FALSE)
        ELSE IF fails = "retriever" THEN AskResult(AskFailed, TRUE, FALSE)
        ELSE IF fails = "prompt" THEN AskResult(AskFailed, TRUE, FALSE)
        ELSE IF fails = "llm" THEN AskResult(AskFailed, TRUE, TRUE)
        ELSE AskResult(Or(strip(answer), HereToHelp), TRUE, TRUE)

\* chat of main.py: is_guest = bool(req.is_guest);
\* bot_reply_text = bot.ask(user_input, user_type=is_guest)
chat_ask(message, is_guest, fails, answer) ==
    qa_agent_ask(message, PyBool(is_guest), fails, answer)

GuestQueries ==
    {<<>>, NoneVal, <<"C", "a", "n", " ", "I", " ", "u", "s", "e", " ", "t", "h", "e", " ", "S", "p", "a", "?">>, <<"p", "o", "o", "l">>, <<"W", "h", "e", "r", "e", " ", "i", "s", " ", "t", "h", "e", " ", "l", "o", "b", "b", "y", "?">>, <<"A", " ", "B", "O", "O", "K", "I", "N", "G", " ", "p", "l", "e", "a", "s", "e">>,
     <<"w", "a", "k", "e", " ", "u", "p", " ", "c", "a", "l", "l">>}
UserTypes == {PyNone, PyStr("guest"), PyStr("non-guest")}
AskFailures == {"none", "retriever", "prompt", "llm"}
Answers == {<<>>, <<" ", "Y", "e", "s", ".", " ">>}

InitGuests ==
    /\ NotRunning
    /\ fn \in [query : GuestQueries, fails : AskFailures, answer : Answers,
               via : {"none"}, user_type : {PyNone}, out : {{}}]

\* bot.ask(query, user_type) as the WhatsApp webhook means to call it.
AskAs ==
    /\ fn.out = {}
    /\ \E user_type \in UserTypes :
           fn' = [fn EXCEPT !.via = "ask", !.user_type = user_type,
                            !.out = {qa_agent_ask(fn.query, user_type, fn.fails, fn.answer)}]
    /\ UNCHANGED <<bot_vars, env_vars, log_vars, thr>>

\* POST /chat of main.py
ChatAsk ==
    /\ fn.out = {}
    /\ fn.query # NoneVal
    /\ \E is_guest \in BOOLEAN :
           fn' = [fn EXCEPT !.via = "chat", !.user_type = PyBool(is_guest),
                            !.out = {chat_ask(fn.query, is_guest, fn.fails, fn.answer)}]
    /\ UNCHANGED <<bot_vars, env_vars, log_vars, thr>>

NextGuests == AskAs \/ ChatAsk

SpecGuests == InitGuests /\ [][NextGuests]_vars

mentions_restricted_service(query) ==
    \E term \in restricted_services : contains(lower(Or(query, <<>>)), term)

\* C30: a /chat request of main.py with is_guest false whose message
\* mentions a restricted service gets the fixed guests-only refusal, and
\* neither the retriever nor the LLM is invoked.
C30_NonGuestRefused ==
    \A result \in fn.out :
        (fn.via = "chat" /\ fn.user_type = PyBool(FALSE) /\ mentions_restricted_service(fn.query)) =>
            /\ result.reply = GuestsOnly
            /\ ~result.retriever_invoked
            /\ ~result.llm_invoked

\* /chat has answered a message that mentions a restricted service and came
\* with is_guest false.
C30_NonGuestAskedForSpa ==
    /\ fn.out # {}
    /\ fn.via = "chat"
    /\ fn.user_type = PyBool(FALSE)
    /\ mentions_restricted_service(fn.query)

(***************************************************************************)
(* SpecRecent: a few ask calls with different questions and answers, from  *)
(* two users, so that a history grows beyond the five turns the prompt     *)
(* shows.                                                                  *)
(***************************************************************************)
MaxRecentCalls == 4

RecentQueries == {<<"P", "o", "o", "l", "?">>, <<"T", "e", "a", "?">>}
RecentIdentifiers == {Guest, <<"A", "@", "X">>}
RecentCompletions == {CompletionRaises, <<"o", "k", " ">>}

AskRecent ==
    /\ last.n < MaxRecentCalls
    /\ \E query \in RecentQueries, user_identifier \in RecentIdentifiers,
          completion \in RecentCompletions :
           Ask(query, user_identifier, 0, "ok", "empty", completion)

NextRecent == AskRecent

SpecRecent == InitHistory /\ [][NextRecent]_vars

\* The lines of the turns, each labelled by its role, oldest first.
RECURSIVE labelled(_)
labelled(turns) ==
    IF turns = <<>> THEN <<>>
    ELSE <<IF Head(turns).role = "user" THEN "User" ELSE "Assistant", ": ">> \o Head(turns).text
         \o <<"\n">> \o labelled(Tail(turns))

\* The number of times chunk occurs in prompt.
occurrences(prompt, chunk) == Cardinality({i \in DOMAIN prompt : prompt[i] = chunk})

\* C24: the prompt of an ask call contains exactly the last min(5, n) turns
\* of the history of the call's key, the current user message being the
\* n-th, oldest first and each labelled by its role.
C24_PromptShowsLastFive ==
    [][(last'.n = last.n + 1 /\ last'.prompt # NoneVal) =>
          LET key     == last'.key
              before  == IF key \in DOMAIN chat_history THEN chat_history[key] ELSE <<>>
              history == Append(before, Turn("user", last'.query, now))
              n       == Len(history)
              recent  == SubSeq(history, n - Min(5, n) + 1, n)
          IN  /\ occurrences(last'.prompt, HistoryHeader) = 1
              /\ contains(last'.prompt,
                          <<HistoryHeader>> \o labelled(recent) \o <<"\n", "Guest Query: ">>)]_vars

\* A prompt was built for the fourth call of a user whose history then held
\* more than five turns.
C24_Witness ==
    /\ last.n = MaxRecentCalls
    /\ last.prompt # NoneVal
    /\ Len(chat_history[last.key]) > 6

=============================================================================
